---- MODULE Spec2Model ----
(***************************************************************************)
(* Model of the HVE (highest volume ever) watermark engine:                *)
(*   src/database.py        the watermark store (SQLite table              *)
(*                          highest_volume_ever)                           *)
(*   src/polygon_client.py  the retrying fetch client and the parallel     *)
(*                          per-symbol orchestrator                        *)
(*                                                                         *)
(* Dates are day ordinals (integers).  The store keeps dates as            *)
(* '%Y-%m-%d' text; that text is an order-preserving, injective encoding   *)
(* of the day ordinal, so a stored date is modelled by its ordinal.        *)
(* Bar timestamps are UTC instants counted in ticks of a quarter day.      *)
(* An optional (nullable) column is a sequence of length 0 (NULL/None) or  *)
(* 1 (the value).                                                          *)
(***************************************************************************)
EXTENDS Integers, Sequences, FiniteSets, TLC

VARIABLES
    store,      \* table highest_volume_ever: symbol -> row, for the symbols that have a row
    track,      \* history of the calls made on each symbol (what was passed, in which order)
    last,       \* the last store operation: its kind, and for an observation the year path it took
    writer,     \* concurrent callers of insert_or_update_highest_volume: position, arguments, row read
    reader,     \* a concurrent query: position, rows fetched so far, result
    seen,       \* the tables that existed while the reader's query was running
    store0,     \* the table before the concurrent calls began
    req,        \* the request in progress: loop counters of _make_request and of the adapter
    fetch,      \* the multi-request fetch in progress: its kind, position, items so far
    chunk,      \* get_historical_data_chunks: the range, current_start, the ranges requested
    pool,       \* process_symbols_parallel: the batch in progress and the results collected
    task,       \* the per-symbol futures: state, and how each chunk request of the symbol ended
    host,       \* the UTC offset of the host's local time zone, in ticks
    client,     \* PolygonClient: the constructor's max_workers argument, the host's cores, self.max_workers
    setup,      \* SetupMode.run: position, the symbols of the pass, the batch in progress
    meta,       \* table metadata: the value of key last_update_date, and how often the run wrote it
    live,       \* RealtimeMode.run: position of the loop, the session signal, the hits of the tick
    app,        \* main: the requested mode, position, exit code, and the last-market-day report
    filt        \* passes_data_universe_filters: the bars it is given and what it returns

storeVars == <<store, track, last>>
concVars == <<writer, reader, seen, store0>>
fetchVars == <<req, fetch, chunk>>
batchVars == <<pool, task, host, client>>
passVars == <<setup, meta, live, app, filt>>
vars == <<store, track, last, writer, reader, seen, store0, req, fetch, chunk, pool, task, host, client,
          setup, meta, live, app, filt>>

(***************************************************************************)
(* Bounds of the model                                                     *)
(***************************************************************************)
MaxVolume == 2
MaxBars == 2
NumChunks == 2
NumPages == 2
BatchSize == 2
MaxWorkers == 2
CheckPeriod == 2

(***************************************************************************)
(* Program constants                                                       *)
(***************************************************************************)
YearDays == 365
TicksPerDay == 4
EasternOffsetTicks == 1
WorkerCeiling == 20

Symbols == {"ABC"}

\* Observation dates: day 0, day 1 and the day 365 days after day 1, so that
\* gaps of 1, 365 (the edge of the window) and 366 days (aged out) all occur.
Dates == {0, 1, YearDays + 1}
Volumes == 0..MaxVolume

\* A bar of dailyBars: 't' a UTC timestamp, 'v' its volume.  Instants: UTC
\* midnight of day 1 (still day 0 in US/Eastern), midnight US/Eastern of day 1
\* and of day 366.  Volumes: the lowest and the highest positive volume.
BarTimes == {TicksPerDay, TicksPerDay + EasternOffsetTicks,
             (YearDays + 1) * TicksPerDay + EasternOffsetTicks}
Bars == [t : BarTimes, v : {1, MaxVolume}]

RECURSIVE SeqsUpTo(_, _)
SeqsUpTo(S, n) ==
    IF n = 0 THEN {<<>>}
    ELSE LET shorter == SeqsUpTo(S, n - 1)
         IN shorter \cup {Append(q, x) : q \in {r \in shorter : Len(r) = n - 1}, x \in S}

Histories == SeqsUpTo(Bars, MaxBars)

None == <<>>
Some(x) == <<x>>
IsSet(o) == Len(o) > 0
Get(o) == o[1]

Max2(a, b) == IF a >= b THEN a ELSE b

(***************************************************************************)
(* Database._calculate_year_high                                           *)
(***************************************************************************)
\* datetime.fromtimestamp(t / 1000, tz=UTC).astimezone(US/Eastern).date()
MarketDate(t) == (t - EasternOffsetTicks) \div TicksPerDay

\* Variant: the bar's date taken from the UTC instant, without the conversion
\* to US/Eastern.
YearHighStep_utc(acc, bar, start_date, end_date) ==
    LET bar_date == bar.t \div TicksPerDay
    IN IF start_date <= bar_date /\ bar_date <= end_date /\ bar.v > acc[1]
       THEN <<bar.v, bar_date>>
       ELSE acc

\* One iteration of the loop over historical_data; acc = (highest_volume, highest_date).
YearHighStep(acc, bar, start_date, end_date) ==
    LET bar_date == MarketDate(bar.t)
    IN IF start_date <= bar_date /\ bar_date <= end_date /\ bar.v > acc[1]
       THEN <<bar.v, bar_date>>
       ELSE acc

RECURSIVE YearHighLoop(_, _, _, _)
YearHighLoop(acc, historical_data, start_date, end_date) ==
    IF historical_data = <<>> THEN acc
    ELSE YearHighLoop(YearHighStep(acc, Head(historical_data), start_date, end_date),
                      Tail(historical_data), start_date, end_date)

calculate_year_high(historical_data, start_date, end_date) ==
    YearHighLoop(<<0, start_date>>, historical_data, start_date, end_date)

(***************************************************************************)
(* Database.insert_or_update_highest_volume, as a function of the row the  *)
(* SELECT returned (result: None or Some(row)) and the arguments.          *)
(* It yields the flags, whether a write is issued and the row written.     *)
(***************************************************************************)
\* Variant: a volume equal to the stored maximum replaces it.
EverUpdated_ge(volume, existing_ever_volume) == volume >= existing_ever_volume

\* volume > existing_ever_volume
EverUpdated(volume, existing_ever_volume) == volume > existing_ever_volume

\* Variant: the window one day too long.
YearAgedOut_late(existing_year_date, year_ago) ==
    IsSet(existing_year_date) /\ Get(existing_year_date) < year_ago - 1

\* existing_year_date and existing_date_obj < year_ago
YearAgedOut(existing_year_date, year_ago) ==
    IsSet(existing_year_date) /\ Get(existing_year_date) < year_ago

\* Variant: a volume equal to the year maximum replaces it.
BeatsYear_ge(volume, current_year_volume) == volume >= current_year_volume

\* volume > current_year_volume
BeatsYear(volume, current_year_volume) == volume > current_year_volume

\* Variant: a call that changes neither record writes nothing.
ShouldWrite_changed(ever_updated, year_updated, result) ==
    ever_updated \/ year_updated

\* if ever_updated or year_updated or result is None
ShouldWrite(ever_updated, year_updated, result) ==
    ever_updated \/ year_updated \/ ~IsSet(result)

\* Variant: the ever values of an existing row are never replaced.
FinalEver_stale(ever_updated, result, volume_date, volume) ==
    IF IsSet(result) THEN <<Get(result).volume, Get(result).date>>
    ELSE <<volume, volume_date>>

\* Lines 174-179: (final_ever_volume, final_ever_date)
FinalEver(ever_updated, result, volume_date, volume) ==
    IF ever_updated THEN <<volume, volume_date>>
    ELSE IF IsSet(result) THEN <<Get(result).volume, Get(result).date>>
    ELSE <<volume, volume_date>>

InsertOrUpdate(result, volume_date, volume, historical_data) ==
    LET existing_ever_date == IF IsSet(result) THEN Some(Get(result).date) ELSE None
        existing_ever_volume == IF IsSet(result) THEN Get(result).volume ELSE 0
        existing_year_volume ==
            IF IsSet(result) /\ IsSet(Get(result).highest_volume_year)
                             /\ Get(Get(result).highest_volume_year) # 0
            THEN Get(Get(result).highest_volume_year) ELSE 0
        existing_year_date ==
            IF IsSet(result) THEN Get(result).highest_volume_year_date ELSE None
        ever_updated == EverUpdated(volume, existing_ever_volume)
        year_ago == volume_date - YearDays
        aged == YearAgedOut(existing_year_date, year_ago)
        recomputed ==
            IF aged
            THEN IF Len(historical_data) > 0
                 THEN LET yh == calculate_year_high(historical_data, year_ago, volume_date)
                      IN <<yh[1], Some(yh[2])>>
                 ELSE <<volume, Some(volume_date)>>
            ELSE <<existing_year_volume, existing_year_date>>
        beats == BeatsYear(volume, recomputed[1])
        current_year_volume == IF beats THEN volume ELSE recomputed[1]
        current_year_date == IF beats THEN Some(volume_date) ELSE recomputed[2]
        year_updated == aged \/ beats
        final_ever_volume == FinalEver(ever_updated, result, volume_date, volume)[1]
        final_ever_date == FinalEver(ever_updated, result, volume_date, volume)[2]
    IN [ever_updated |-> ever_updated,
        year_updated |-> year_updated,
        aged |-> aged,
        write |-> ShouldWrite(ever_updated, year_updated, result),
        row |-> [date |-> final_ever_date,
                 volume |-> final_ever_volume,
                 highest_volume_year |-> Some(current_year_volume),
                 highest_volume_year_date |-> current_year_date]]

\* cursor.fetchone() of the SELECT ... WHERE symbol = ?
SelectRow(table, symbol) ==
    IF symbol \in DOMAIN table THEN Some(table[symbol]) ELSE None

\* Variant: the statement replaces the whole table by the row.
Replace_only(table, symbol, row) ==
    [s \in {symbol} |-> row]

\* INSERT OR REPLACE of one row
Replace(table, symbol, row) ==
    [s \in (DOMAIN table) \cup {symbol} |-> IF s = symbol THEN row ELSE table[s]]

(***************************************************************************)
(* History of the calls on a symbol                                        *)
(***************************************************************************)
\* only_applied: every change of the symbol's row so far was made by a call of
\* insert_or_update_highest_volume whose write did not fail; while it holds,
\* max_volume is the maximum volume passed and max_date the date of the first
\* call that passed it.  latest is the latest date applied, chrono whether the
\* dates were applied in non-decreasing order.
NoTrack == [called |-> FALSE, only_applied |-> TRUE, max_volume |-> 0, max_date |-> 0,
            latest |-> 0, chrono |-> TRUE]

Spoiled(tr) == [tr EXCEPT !.only_applied = FALSE, !.max_volume = 0, !.max_date = 0]

Tracked(tr, volume_date, volume) ==
    LET first == ~tr.called
        higher == first \/ volume > tr.max_volume
    IN [called |-> TRUE,
        only_applied |-> tr.only_applied,
        max_volume |-> IF ~tr.only_applied THEN 0
                       ELSE IF higher THEN volume ELSE tr.max_volume,
        max_date |-> IF ~tr.only_applied THEN 0
                     ELSE IF higher THEN volume_date ELSE tr.max_date,
        latest |-> IF first THEN volume_date ELSE Max2(tr.latest, volume_date),
        chrono |-> tr.chrono /\ (first \/ volume_date >= tr.latest)]

(***************************************************************************)
(* Concurrent callers and readers of the store.  Every call opens its own  *)
(* connection (Database._get_connection); no statement of the module opens *)
(* a transaction that spans two statements, and there is no lock.          *)
(***************************************************************************)
Writers == {"backfill", "live"}

IdleWriter == [pc |-> "idle", volume_date |-> 0, volume |-> 0, historical_data |-> <<>>,
               result |-> None]
IdleReader == [pc |-> "idle", op |-> "none", since_date |-> 0, results |-> <<>>]

ConcIdle ==
    /\ writer = [w \in Writers |-> IdleWriter]
    /\ reader = IdleReader
    /\ seen = {}
    /\ store0 = <<>>

NoRequest == [pc |-> "none", attempt |-> 0, tries |-> 0, http |-> 0, waits |-> <<>>,
              last |-> "none", backoff |-> 0]
NoFetch == [pc |-> "none", kind |-> "none", index |-> 0, items |-> <<>>, failed |-> {}]

NoChunk == [pc |-> "none", start_date |-> 0, end_date |-> 0, current_start |-> 0,
            requests |-> <<>>]

FetchIdle ==
    /\ req = NoRequest
    /\ fetch = NoFetch
    /\ chunk = NoChunk

BatchIdle ==
    /\ pool = [pc |-> "none", start |-> 0, results |-> <<>>]
    /\ task = <<>>
    /\ host = 0
    /\ client = [arg |-> <<>>, cores |-> 1, max_workers |-> 1]

NoSetup == [pc |-> "none", mode |-> "none", monday |-> FALSE, symbols |-> <<>>, start |-> 0,
            results |-> <<>>, k |-> 0, exc |-> "none", cancelled |-> FALSE, cancel_start |-> 0,
            applied |-> {}, failed |-> {}, asked |-> {}, pending |-> <<>>, meta0 |-> <<>>,
            dates |-> <<>>]
NoMeta == [last_update_date |-> <<>>, writes |-> 0]
NoLive == [pc |-> "none", active |-> FALSE, phase |-> 0, wait |-> 0, symbols |-> <<>>, k |-> 0,
           volumes |-> <<>>, hits |-> <<>>, failed |-> FALSE, tick_store |-> <<>>,
           tick |-> FALSE]

NoApp == [pc |-> "none", mode |-> "none", exit_code |-> 0, day |-> 0, sent |-> FALSE,
          events |-> <<>>, exc |-> "none"]

NoFilter == [pc |-> "none", historical_data |-> <<>>, result |-> FALSE, exc |-> "none"]

PassIdle ==
    /\ setup = NoSetup
    /\ meta = NoMeta
    /\ live = NoLive
    /\ app = NoApp
    /\ filt = NoFilter

Init ==
    /\ store = <<>>
    /\ track = [s \in Symbols |-> NoTrack]
    /\ last = "none"
    /\ ConcIdle
    /\ FetchIdle
    /\ BatchIdle
    /\ PassIdle

(***************************************************************************)
(* Actions of the store                                                    *)
(***************************************************************************)
\* The table after a call of insert_or_update_highest_volume whose write succeeds.
Applied(table, symbol, volume_date, volume, historical_data) ==
    LET r == InsertOrUpdate(SelectRow(table, symbol), volume_date, volume, historical_data)
    IN IF r.write THEN Replace(table, symbol, r.row) ELSE table

\* The outcome of a call whose INSERT OR REPLACE or commit raises: the
\* handler rolls the connection back and returns (False, False).
WriteFailed_kept(table, symbol, volume_date, volume, historical_data) ==
    [table |-> Applied(table, symbol, volume_date, volume, historical_data),
     ever_updated |-> FALSE, year_updated |-> FALSE]

WriteFailed(table, symbol, volume_date, volume, historical_data) ==
    [table |-> table, ever_updated |-> FALSE, year_updated |-> FALSE]

\* Database.insert_or_update_highest_volume: SELECT, compute, INSERT OR REPLACE
\* and commit.  write_fails: the INSERT raises; the call rolls back and returns
\* (False, False).
insert_or_update_highest_volume(symbol, volume_date, volume, historical_data, write_fails) ==
    LET r == InsertOrUpdate(SelectRow(store, symbol), volume_date, volume, historical_data)
    IN /\ write_fails => r.write
       /\ store' = IF write_fails
                   THEN WriteFailed(store, symbol, volume_date, volume, historical_data).table
                   ELSE Applied(store, symbol, volume_date, volume, historical_data)
       /\ track' = [track EXCEPT ![symbol] =
                        IF write_fails THEN Spoiled(@) ELSE Tracked(@, volume_date, volume)]
       /\ last' = IF write_fails THEN "apply_failed"
                  ELSE IF r.aged /\ Len(historical_data) > 0 THEN "apply_recomputed"
                  ELSE IF r.aged THEN "apply_degraded"
                  ELSE "apply"
       /\ UNCHANGED <<concVars, fetchVars, batchVars, passVars>>

\* Database.batch_insert_highest_volumes with one record: INSERT OR REPLACE of
\* (symbol, date, volume); the year columns are not listed and become NULL.
batch_insert_highest_volumes(symbol, volume_date, volume) ==
    /\ store' = Replace(store, symbol,
                        [date |-> volume_date, volume |-> volume,
                         highest_volume_year |-> None,
                         highest_volume_year_date |-> None])
    /\ track' = [track EXCEPT ![symbol] = Spoiled(@)]
    /\ last' = "batch"
    /\ UNCHANGED <<concVars, fetchVars, batchVars, passVars>>

ApplyObservation ==
    \E symbol \in Symbols, volume_date \in Dates, volume \in Volumes,
       historical_data \in Histories, write_fails \in BOOLEAN :
        insert_or_update_highest_volume(symbol, volume_date, volume, historical_data, write_fails)

BatchApply ==
    \E symbol \in Symbols, volume_date \in Dates, volume \in Volumes :
        batch_insert_highest_volumes(symbol, volume_date, volume)

Next == ApplyObservation \/ BatchApply

Spec == Init /\ [][Next]_vars

(***************************************************************************)
(* Queries of the store                                                    *)
(***************************************************************************)
\* Database.get_highest_volume: None, or (date, volume)
get_highest_volume(table, symbol) ==
    IF symbol \in DOMAIN table
    THEN Some(<<table[symbol].date, table[symbol].volume>>)
    ELSE None

\* Database.get_highest_volume_year: None unless the year date and a non-zero
\* year volume are both set
get_highest_volume_year(table, symbol) ==
    IF /\ symbol \in DOMAIN table
       /\ IsSet(table[symbol].highest_volume_year_date)
       /\ IsSet(table[symbol].highest_volume_year)
       /\ Get(table[symbol].highest_volume_year) # 0
    THEN Some(<<Get(table[symbol].highest_volume_year_date),
                Get(table[symbol].highest_volume_year)>>)
    ELSE None

\* (date, volume) of a is not below that of b
KeyGe_date(a, b) == a.date >= b.date
KeyGe(a, b) == a.date > b.date \/ (a.date = b.date /\ a.volume >= b.volume)

\* ORDER BY date DESC, volume DESC of a set of rows; rows with the same date and
\* volume are returned in an order the engine chooses.
RECURSIVE OrderBy(_)
OrderBy(rows) ==
    IF rows = {} THEN <<>>
    ELSE LET top == CHOOSE r \in rows : \A q \in rows : KeyGe(r, q)
         IN <<top>> \o OrderBy(rows \ {top})

\* SELECT symbol, date, volume ... WHERE date >= ? ORDER BY date DESC, volume DESC
SelectEverEvents(table, since_date) ==
    OrderBy({[symbol |-> s, date |-> table[s].date, volume |-> table[s].volume,
              kind |-> "Ever"] : s \in {x \in DOMAIN table : table[x].date >= since_date}})

\* SELECT symbol, highest_volume_year_date, highest_volume_year ...
\* WHERE highest_volume_year_date >= ? AND highest_volume_year IS NOT NULL
SelectYearEvents(table, since_date) ==
    OrderBy({[symbol |-> s, date |-> Get(table[s].highest_volume_year_date),
              volume |-> Get(table[s].highest_volume_year), kind |-> "Year"] :
             s \in {x \in DOMAIN table :
                      /\ IsSet(table[x].highest_volume_year_date)
                      /\ Get(table[x].highest_volume_year_date) >= since_date
                      /\ IsSet(table[x].highest_volume_year)}})

\* results.sort(key=lambda x: (x[1], x[2]), reverse=True): a stable sort
RECURSIVE InsertSorted(_, _)
InsertSorted(sorted, x) ==
    IF sorted = <<>> THEN <<x>>
    ELSE IF KeyGe(Head(sorted), x)
         THEN <<Head(sorted)>> \o InsertSorted(Tail(sorted), x)
         ELSE <<x>> \o sorted

RECURSIVE SortEvents(_)
SortEvents(results) ==
    IF results = <<>> THEN <<>>
    ELSE InsertSorted(SortEvents(SubSeq(results, 1, Len(results) - 1)),
                      results[Len(results)])

\* Database.get_events_since_date on a table that does not change meanwhile
get_events_since_date(table, since_date) ==
    SortEvents(SelectEverEvents(table, since_date) \o SelectYearEvents(table, since_date))

\* What a query returns when it runs on one table
QueryOn(op, table, symbol, since_date) ==
    CASE op = "get" -> get_highest_volume(table, symbol)
      [] op = "get_year" -> get_highest_volume_year(table, symbol)
      [] OTHER -> get_events_since_date(table, since_date)

(***************************************************************************)
(* Concurrent calls on one symbol                                          *)
(***************************************************************************)
ConcSymbol == "ABC"

\* Tables the program can hold before the calls begin: empty, or one observation applied.
ConcInitialTables ==
    {<<>>} \cup {Applied(<<>>, ConcSymbol, d, v, <<>>) : d \in Dates, v \in Volumes}

\* The live poll passes no history (realtime_mode.py:131); a backfill passes the
\* bars it fetched.
WriterHistories(w) ==
    IF w = "live" THEN {<<>>} ELSE {h \in Histories : Len(h) <= 1 /\ (h # <<>> => h[1].v = MaxVolume)}

InitConc ==
    /\ store \in ConcInitialTables
    /\ store0 = store
    /\ track = [s \in Symbols |-> NoTrack]
    /\ last = "none"
    /\ writer = [w \in Writers |-> IdleWriter]
    /\ reader = IdleReader
    /\ seen = {}
    /\ FetchIdle
    /\ BatchIdle
    /\ PassIdle

\* insert_or_update_highest_volume, lines 124-132: connect and SELECT the row
WriterSelect(w) ==
    /\ writer[w].pc = "idle"
    /\ \E volume_date \in Dates, volume \in Volumes, historical_data \in WriterHistories(w) :
        writer' = [writer EXCEPT ![w] =
                    [pc |-> "selected", volume_date |-> volume_date, volume |-> volume,
                     historical_data |-> historical_data,
                     result |-> SelectRow(store, ConcSymbol)]]
    /\ UNCHANGED <<store, track, last, reader, seen, store0, fetchVars, batchVars, passVars>>

\* insert_or_update_highest_volume, lines 134-206: compute from the row read
\* earlier, INSERT OR REPLACE and commit
WriterWrite(w) ==
    /\ writer[w].pc = "selected"
    /\ LET r == InsertOrUpdate(writer[w].result, writer[w].volume_date, writer[w].volume,
                               writer[w].historical_data)
       IN /\ store' = IF r.write THEN Replace(store, ConcSymbol, r.row) ELSE store
          /\ seen' = IF reader.pc = "ever_selected" THEN seen \cup {store'} ELSE seen
    /\ writer' = [writer EXCEPT ![w].pc = "done"]
    /\ UNCHANGED <<track, last, reader, store0, fetchVars, batchVars, passVars>>

\* get_highest_volume / get_highest_volume_year: one SELECT
ReaderGet ==
    /\ reader.pc = "idle"
    /\ \E op \in {"get", "get_year"} :
        reader' = [pc |-> "done", op |-> op, since_date |-> 0,
                   results |-> QueryOn(op, store, ConcSymbol, 0)]
    /\ seen' = {store}
    /\ UNCHANGED <<store, track, last, writer, store0, fetchVars, batchVars, passVars>>

\* get_events_since_date, lines 273-285: the SELECT of the "Ever" events
ReaderSelectEver ==
    /\ reader.pc = "idle"
    /\ \E since_date \in Dates :
        reader' = [pc |-> "ever_selected", op |-> "events", since_date |-> since_date,
                   results |-> SelectEverEvents(store, since_date)]
    /\ seen' = {store}
    /\ UNCHANGED <<store, track, last, writer, store0, fetchVars, batchVars, passVars>>

\* get_events_since_date, lines 288-303: the SELECT of the "Year" events, the
\* sort and the return
ReaderSelectYear ==
    /\ reader.pc = "ever_selected"
    /\ reader' = [reader EXCEPT
                    !.pc = "done",
                    !.results = SortEvents(reader.results
                                           \o SelectYearEvents(store, reader.since_date))]
    /\ UNCHANGED <<store, track, last, writer, seen, store0, fetchVars, batchVars, passVars>>

NextConc ==
    \/ \E w \in Writers : WriterSelect(w)
    \/ \E w \in Writers : WriterWrite(w)
    \/ ReaderGet
    \/ ReaderSelectEver
    \/ ReaderSelectYear

SpecConc == InitConc /\ [][NextConc]_vars


(***************************************************************************)
(* The fetch client: PolygonClient._make_request over the session whose    *)
(* adapter carries urllib3's Retry(total=3, status_forcelist=[429, 500,    *)
(* 502, 503, 504]), and the multi-request fetches built on it.             *)
(***************************************************************************)
max_retries == 3
RetryTotal == 3

StatusForcelist == {"429", "503"}
ConnectionFailures == {"connection_error", "timeout"}
\* What the server (or the network) answers to one HTTP attempt.
ServerOutcomes == {"200", "404"} \cup StatusForcelist \cup ConnectionFailures

\* session.get: what the adapter does with the outcome of one HTTP attempt after
\* `tries` retries of its own: retry, hand the response back, or raise
\* (RetryError, ConnectionError, Timeout: all RequestException).
AdapterResult(outcome, tries) ==
    IF outcome \in StatusForcelist \cup ConnectionFailures
    THEN IF tries < RetryTotal THEN "retry" ELSE "raise"
    ELSE "response"

\* _make_request, lines 74-94: what one pass of the loop does once session.get
\* is over: return the body, or consume the attempt.
AttemptResult(outcome, tries) ==
    CASE AdapterResult(outcome, tries) = "retry" -> "in_adapter"
      [] AdapterResult(outcome, tries) = "response" /\ outcome = "200" -> "return"
      [] AdapterResult(outcome, tries) = "response" /\ outcome = "429" -> "rate_limited"
      [] OTHER -> "exception"

NewRequest == [pc |-> "sending", attempt |-> 0, tries |-> 0, http |-> 0, waits |-> <<>>,
               last |-> "none", backoff |-> 0]

\* Retry(backoff_factor=1): the seconds the adapter sleeps before it re-sends,
\* after `errors` consecutive failed attempts of one session.get; urllib3
\* re-sends at once after the first one (a response without Retry-After).
backoff_factor == 1
AdapterBackoff(errors) == IF errors <= 1 THEN 0 ELSE backoff_factor * 2 ^ (errors - 1)

\* The bars the server holds for a symbol in yearly chunk i: one bar, at
\* midnight US/Eastern of day i.
ServerVolume(symbol, i) ==
    CASE symbol = "AAA" -> i
      [] symbol = "BBB" -> NumChunks + 1 - i
      [] OTHER -> 1

ServerBars(symbol, i) ==
    <<[t |-> i * TicksPerDay + EasternOffsetTicks, v |-> ServerVolume(symbol, i)]>>

\* The tickers of page p of the listing
PageTickers(p) == <<p>>

FetchSymbol == "AAA"
LastIndex(kind) == IF kind = "history" THEN NumChunks ELSE NumPages
ItemsOf(kind, i) == IF kind = "history" THEN ServerBars(FetchSymbol, i) ELSE PageTickers(i)

InitFetch ==
    /\ store = <<>>
    /\ track = [s \in Symbols |-> NoTrack]
    /\ last = "none"
    /\ ConcIdle
    /\ BatchIdle
    /\ PassIdle
    /\ req = NewRequest
    /\ chunk = NoChunk
    /\ fetch \in {[pc |-> "running", kind |-> k, index |-> 1, items |-> <<>>, failed |-> {}] :
                  k \in {"history", "tickers"}}

\* The first page of get_active_tickers and every chunk of
\* get_historical_data_chunks go through _make_request; the follow-up pages call
\* session.get directly (polygon_client.py:135).
ViaMakeRequest == fetch.kind = "history" \/ fetch.index = 1

\* The fetch after request `index` ended: with its items (ok), or without
\* (dropped: get_daily_aggregates returned [] / the page loop broke).
\* get_historical_data_chunks goes on to the next chunk either way;
\* get_active_tickers goes on to the next page only after a page that came.
FetchAfter(ok, stop) ==
    LET items == IF ok THEN fetch.items \o ItemsOf(fetch.kind, fetch.index) ELSE fetch.items
        failed == IF ok THEN fetch.failed ELSE fetch.failed \cup {fetch.index}
        over == stop \/ fetch.index = LastIndex(fetch.kind)
    IN [fetch EXCEPT !.items = items, !.failed = failed,
                     !.index = IF over THEN fetch.index ELSE fetch.index + 1,
                     !.pc = IF over THEN "returned" ELSE "running"]

Sending == fetch.pc = "running" /\ req.pc = "sending"

\* An HTTP attempt that the adapter retries on its own
AdapterRetried(outcome) ==
    /\ Sending
    /\ AdapterResult(outcome, req.tries) = "retry"
    /\ req' = [req EXCEPT !.tries = @ + 1, !.http = @ + 1, !.last = outcome,
                          !.backoff = AdapterBackoff(req.tries + 1)]
    /\ UNCHANGED <<storeVars, concVars, batchVars, passVars, fetch, chunk>>

\* _make_request: an attempt answered 200; the body is returned, the caller
\* keeps the items and issues the next request
RequestReturned(outcome) ==
    /\ Sending /\ ViaMakeRequest
    /\ AttemptResult(outcome, req.tries) = "return"
    /\ fetch' = FetchAfter(TRUE, FALSE)
    /\ req' = IF fetch'.pc = "running" THEN NewRequest
              ELSE [req EXCEPT !.pc = "returned", !.http = @ + 1, !.last = outcome]
    /\ UNCHANGED <<storeVars, concVars, batchVars, passVars, chunk>>

\* _make_request: an attempt consumed (exception, or the 429 branch) with
\* attempts left: sleep 2^attempt and go round the loop
RequestRetried(outcome) ==
    /\ Sending /\ ViaMakeRequest
    /\ AttemptResult(outcome, req.tries) \in {"exception", "rate_limited"}
    /\ req.attempt < max_retries
    /\ req' = [req EXCEPT !.attempt = @ + 1, !.tries = 0, !.http = @ + 1,
                          !.waits = Append(@, 2 ^ req.attempt), !.last = outcome,
                          !.backoff = 2 ^ req.attempt]
    /\ UNCHANGED <<storeVars, concVars, batchVars, passVars, fetch, chunk>>

\* _make_request: the last attempt consumed: it raises.  get_daily_aggregates
\* catches and returns [] (lines 207-209), and get_historical_data_chunks goes
\* on; get_active_tickers lets the exception out of the first page.
RequestRaised(outcome) ==
    /\ Sending /\ ViaMakeRequest
    /\ AttemptResult(outcome, req.tries) \in {"exception", "rate_limited"}
    /\ req.attempt = max_retries
    /\ fetch' = IF fetch.kind = "history" THEN FetchAfter(FALSE, FALSE)
                ELSE [fetch EXCEPT !.pc = "raised", !.failed = @ \cup {fetch.index}]
    /\ req' = IF fetch'.pc = "running" THEN NewRequest
              ELSE [req EXCEPT !.pc = "raised", !.http = @ + 1, !.last = outcome]
    /\ UNCHANGED <<storeVars, concVars, batchVars, passVars, chunk>>

\* get_active_tickers, follow-up page: session.get answered; 200 yields the
\* page, any other status logs and breaks out of the loop (lines 136-138)
PageAnswered(outcome) ==
    /\ Sending /\ ~ViaMakeRequest
    /\ AdapterResult(outcome, req.tries) = "response"
    /\ fetch' = FetchAfter(outcome = "200", outcome # "200")
    /\ req' = IF fetch'.pc = "running" THEN NewRequest
              ELSE [req EXCEPT !.pc = "returned", !.http = @ + 1, !.last = outcome]
    /\ UNCHANGED <<storeVars, concVars, batchVars, passVars, chunk>>

\* get_active_tickers, follow-up page: session.get raises after the adapter's
\* retries; the exception leaves the generator
PageRaised(outcome) ==
    /\ Sending /\ ~ViaMakeRequest
    /\ AdapterResult(outcome, req.tries) = "raise"
    /\ fetch' = [fetch EXCEPT !.pc = "raised", !.failed = @ \cup {fetch.index}]
    /\ req' = [req EXCEPT !.pc = "raised", !.http = @ + 1, !.last = outcome]
    /\ UNCHANGED <<storeVars, concVars, batchVars, passVars, chunk>>

NextFetch ==
    \/ \E outcome \in ServerOutcomes : AdapterRetried(outcome)
    \/ \E outcome \in ServerOutcomes : RequestReturned(outcome)
    \/ \E outcome \in ServerOutcomes : RequestRetried(outcome)
    \/ \E outcome \in ServerOutcomes : RequestRaised(outcome)
    \/ \E outcome \in ServerOutcomes : PageAnswered(outcome)
    \/ \E outcome \in ServerOutcomes : PageRaised(outcome)

SpecFetch == InitFetch /\ [][NextFetch]_vars

(***************************************************************************)
(* The parallel orchestrator: PolygonClient.process_symbols_parallel       *)
(* running find_highest_for_symbol of find_highest_volume_parallel.        *)
(***************************************************************************)
BatchSymbols == <<"AAA", "BBB", "CCC">>

\* How the request of one yearly chunk ended: answered at once, answered after
\* fewer failures than the retry budget, or failed on every attempt
\* (get_daily_aggregates then returns []).
ChunkOutcomes == {"ok", "transient", "permanent"}

PacificOffsetTicks == 2
\* Hosts running in UTC, in US/Eastern and in US/Pacific
HostOffsets == {0, EasternOffsetTicks, PacificOffsetTicks}

\* datetime.fromtimestamp(timestamp_ms / 1000).date(): the date in the host's zone
HostDate(t, offset) == (t - offset) \div TicksPerDay

\* get_historical_data_chunks: the bars of the chunks whose request came back
RECURSIVE ChunksData(_, _, _)
ChunksData(symbol, outcomes, i) ==
    IF i > NumChunks THEN <<>>
    ELSE (IF outcomes[i] = "permanent" THEN <<>> ELSE ServerBars(symbol, i))
         \o ChunksData(symbol, outcomes, i + 1)

\* The loop of find_highest_for_symbol; acc = (highest_volume, highest_date)
RECURSIVE HighestLoop(_, _, _)
HighestLoop(acc, data, offset) ==
    IF data = <<>> THEN acc
    ELSE HighestLoop(IF Head(data).v > acc[1]
                     THEN <<Head(data).v, Some(HostDate(Head(data).t, offset))>>
                     ELSE acc,
                     Tail(data), offset)

\* find_highest_for_symbol: None, or Some((symbol, highest_date, highest_volume))
find_highest_for_symbol(symbol, outcomes, offset) ==
    LET data == ChunksData(symbol, outcomes, 1)
        hi == HighestLoop(<<0, None>>, data, offset)
    IN IF data = <<>> THEN None
       ELSE IF IsSet(hi[2]) THEN Some(<<symbol, Get(hi[2]), hi[1]>>)
       ELSE None

NoOutcomes == [i \in 1..NumChunks |-> "ok"]

\* The values of the constructor's max_workers argument: left out (None), small,
\* and one above the ceiling
WorkerArgs == {None, Some(WorkerCeiling + 1)} \cup {Some(n) : n \in 1..MaxWorkers}
\* os.cpu_count() of a small and of a large host
CoreCounts == {1, WorkerCeiling + 12}
Min2(a, b) == IF a <= b THEN a ELSE b

\* PolygonClient.__init__: max_workers or min(available_cores, 20)
NewClient(arg, cores) ==
    [arg |-> arg, cores |-> cores,
     max_workers |-> IF IsSet(arg) /\ Get(arg) # 0 THEN Get(arg)
                     ELSE Min2(cores, WorkerCeiling)]
BatchOf(start) ==
    {i \in 1..Len(BatchSymbols) : i >= start /\ i < start + BatchSize}

Submitted(start) ==
    [i \in 1..Len(BatchSymbols) |->
        IF i \in BatchOf(start) THEN [state |-> "queued", outcomes |-> NoOutcomes, runs |-> 0]
        ELSE IF i < start THEN task[i]
        ELSE [state |-> "unsubmitted", outcomes |-> NoOutcomes, runs |-> 0]]

InitBatch ==
    /\ store = <<>>
    /\ track = [s \in Symbols |-> NoTrack]
    /\ last = "none"
    /\ ConcIdle
    /\ FetchIdle
    /\ PassIdle
    /\ host \in HostOffsets
    /\ \E arg \in WorkerArgs, cores \in CoreCounts : client = NewClient(arg, cores)
    /\ pool = [pc |-> "batch", start |-> 1, results |-> <<>>]
    /\ task = [i \in 1..Len(BatchSymbols) |->
                 [state |-> IF i \in BatchOf(1) THEN "queued" ELSE "unsubmitted",
                  outcomes |-> NoOutcomes, runs |-> 0]]

Running == {i \in 1..Len(BatchSymbols) : task[i].state = "running"}

\* A worker of the executor takes the oldest queued future
TaskStart(i) ==
    /\ pool.pc = "batch"
    /\ task[i].state = "queued"
    /\ Cardinality(Running) < client.max_workers
    /\ \A j \in 1..(i - 1) : task[j].state # "queued"
    /\ task' = [task EXCEPT ![i].state = "running", ![i].runs = @ + 1]
    /\ UNCHANGED <<storeVars, concVars, fetchVars, pool, host, client, passVars>>

\* find_highest_for_symbol runs to its end; each of its chunk requests ended
\* in one of the three ways
TaskFinish(i) ==
    /\ task[i].state = "running"
    /\ \E outcomes \in [1..NumChunks -> ChunkOutcomes] :
        task' = [task EXCEPT ![i].state = "finished", ![i].outcomes = outcomes]
    /\ UNCHANGED <<storeVars, concVars, fetchVars, pool, host, client, passVars>>

\* The as_completed loop takes a finished future and appends its result
\* unless it is None
Collect(i) ==
    /\ pool.pc = "batch"
    /\ task[i].state = "finished"
    /\ LET result == find_highest_for_symbol(BatchSymbols[i], task[i].outcomes, host)
       IN pool' = [pool EXCEPT !.results = IF IsSet(result) THEN Append(@, Get(result)) ELSE @]
    /\ task' = [task EXCEPT ![i].state = "collected"]
    /\ UNCHANGED <<storeVars, concVars, fetchVars, host, client, passVars>>

BatchCollected == \A i \in BatchOf(pool.start) : task[i].state = "collected"

\* The executor of the batch is shut down and the next batch is submitted
NextBatch ==
    /\ pool.pc = "batch"
    /\ BatchCollected
    /\ pool.start + BatchSize <= Len(BatchSymbols)
    /\ pool' = [pool EXCEPT !.start = @ + BatchSize]
    /\ task' = Submitted(pool.start + BatchSize)
    /\ UNCHANGED <<storeVars, concVars, fetchVars, host, client, passVars>>

\* After the last batch the results are returned
BatchReturn ==
    /\ pool.pc = "batch"
    /\ BatchCollected
    /\ pool.start + BatchSize > Len(BatchSymbols)
    /\ pool' = [pool EXCEPT !.pc = "returned"]
    /\ UNCHANGED <<storeVars, concVars, fetchVars, task, host, client, passVars>>

NextBatchSpec ==
    \/ \E i \in 1..Len(BatchSymbols) : TaskStart(i)
    \/ \E i \in 1..Len(BatchSymbols) : TaskFinish(i)
    \/ \E i \in 1..Len(BatchSymbols) : Collect(i)
    \/ NextBatch
    \/ BatchReturn

SpecBatch == InitBatch /\ [][NextBatchSpec]_vars

(***************************************************************************)
(* SetupMode.run: the bootstrap pass (_initial_setup) and the incremental  *)
(* catch-up (_backfill_stale_data).                                        *)
(***************************************************************************)
\* date.today() of the run
Today == YearDays + 35
BackfillLookback == 7

\* The symbols the two exchanges list, in sorted order
UniverseSymbols == BatchSymbols
NyseSymbols == {"AAA", "BBB"}
NasdaqSymbols == {"CCC"}

\* get_all_active_symbols: the sorted union of the two listings; the listing of
\* an exchange that fails contributes nothing
get_all_active_symbols(nyse_ok, nasdaq_ok) ==
    LET symbols == (IF nyse_ok THEN NyseSymbols ELSE {})
                   \cup (IF nasdaq_ok THEN NasdaqSymbols ELSE {})
    IN SelectSeq(UniverseSymbols, LAMBDA x : x \in symbols)

\* get_all_symbols: SELECT symbol ... ORDER BY symbol
get_all_symbols(table) == SelectSeq(UniverseSymbols, LAMBDA x : x \in DOMAIN table)

\* Database.needs_setup: COUNT(*) = 0
needs_setup(table) == DOMAIN table = {}

\* Database.is_data_stale: no stored date, or a stored date before the
\* threshold (Friday when today is a Monday, else yesterday)
is_data_stale(last_update, monday) ==
    IF ~IsSet(last_update) THEN TRUE
    ELSE Get(last_update) < Today - (IF monday THEN 3 ELSE 1)

\* SetupMode._get_last_update_date
get_last_update_date == Today - BackfillLookback

\* An `except Exception` clause does not catch KeyboardInterrupt
BatchHandlerCatches_all(exc) == TRUE
BatchHandlerCatches(exc) == exc # "KeyboardInterrupt"
RunHandlerCatches(exc) == exc # "KeyboardInterrupt"

\* find_highest_volume_for_symbol of _process_symbol_batch: None, or the
\* symbol with (highest_date, highest_volume, historical_data)
find_highest_volume_for_symbol(symbol, outcomes) ==
    LET historical_data == ChunksData(symbol, outcomes, 1)
        hi == HighestLoop(<<0, None>>, historical_data, EasternOffsetTicks)
    IN IF historical_data = <<>> THEN None
       ELSE IF IsSet(hi[2]) /\ hi[1] > 0
            THEN Some([symbol |-> symbol, date |-> Get(hi[2]), volume |-> hi[1],
                       historical_data |-> historical_data])
       ELSE None

\* How the chunk requests of one symbol end during a pass
SetupOutcomes ==
    {[c \in 1..NumChunks |-> "ok"],
     [c \in 1..NumChunks |-> "permanent"],
     [c \in 1..NumChunks |-> IF c = 1 THEN "ok" ELSE "permanent"]}

\* The bar the server holds for a symbol on a recent day
DailyVolume(symbol, d) == IF symbol = "AAA" /\ d = Today - 1 THEN NumChunks + 1 ELSE 1
DailyBars(symbol, d) ==
    <<[t |-> d * TicksPerDay + EasternOffsetTicks, v |-> DailyVolume(symbol, d)]>>

\* The store a completed bootstrap of the symbols leaves
RECURSIVE BootstrappedStore(_)
BootstrappedStore(symbols) ==
    IF symbols = <<>> THEN <<>>
    ELSE LET r == Get(find_highest_volume_for_symbol(Head(symbols), NoOutcomes))
         IN Applied(BootstrappedStore(Tail(symbols)), r.symbol, r.date, r.volume,
                    r.historical_data)

\* The universe filter.  Volumes of the recent sessions are counted in
\* thousands of shares and closes in cents, so that
\*   average(v) * average(c) > 10,000,000
\* of ten sessions reads sum(v) * sum(c) > DollarVolumeThreshold.
SmaSessions == 10
PriceFloorCents == 300
DollarVolumeThreshold == 100000000

\* The bars get_daily_aggregates returns for the last 20 days of a symbol
RecentSessions(symbol) ==
    [i \in 1..SmaSessions |->
        CASE symbol = "AAA" -> [v |-> 2000, c |-> 1000]
          [] symbol = "BBB" -> [v |-> 100, c |-> 1000]
          [] OTHER -> [v |-> 20000, c |-> 200]]

RECURSIVE SumField(_, _)
SumField(bars, field) ==
    IF bars = <<>> THEN 0 ELSE Head(bars)[field] + SumField(Tail(bars), field)

\* calculate_10_sma times ten: 0 unless the last ten bars all have a value above 0
calculate_10_sma(historical_data, field) ==
    IF Len(historical_data) < SmaSessions THEN 0
    ELSE LET recent_data == SubSeq(historical_data, Len(historical_data) - SmaSessions + 1,
                                   Len(historical_data))
         IN IF \E i \in 1..SmaSessions : recent_data[i][field] <= 0 THEN 0
            ELSE SumField(recent_data, field)

\* Variant: a dollar volume equal to the threshold passes.
passes_data_universe_filters_ge(historical_data) ==
    IF Len(historical_data) < SmaSessions THEN FALSE
    ELSE IF historical_data[Len(historical_data)].c < PriceFloorCents THEN FALSE
    ELSE LET sma_volume == calculate_10_sma(historical_data, "v")
             sma_price == calculate_10_sma(historical_data, "c")
         IN IF sma_volume = 0 \/ sma_price = 0 THEN FALSE
            ELSE sma_volume * sma_price >= DollarVolumeThreshold

\* PolygonClient.passes_data_universe_filters
passes_data_universe_filters(historical_data) ==
    IF Len(historical_data) < SmaSessions THEN FALSE
    ELSE IF historical_data[Len(historical_data)].c < PriceFloorCents THEN FALSE
    ELSE LET sma_volume == calculate_10_sma(historical_data, "v")
             sma_price == calculate_10_sma(historical_data, "c")
         IN IF sma_volume = 0 \/ sma_price = 0 THEN FALSE
            ELSE sma_volume * sma_price > DollarVolumeThreshold

\* The stored last_update_date is this many days old when the run begins
StoredAges == {0, 2, BackfillLookback + 2}

\* args.mode of main
Modes == {"realtime", "historical"}

\* The exit status of main when an exception reaches its handlers, lines
\* 138-149: KeyboardInterrupt is logged, anything else ends in sys.exit(1)
MainExitCode_zero(exc) == 0

MainExitCode(exc) == IF exc = "KeyboardInterrupt" THEN 0 ELSE 1

StartSetup(monday) ==
    [pc |-> "start", mode |-> "none", monday |-> monday, symbols |-> <<>>, start |-> 0,
     results |-> <<>>, k |-> 0, exc |-> "none", cancelled |-> FALSE, cancel_start |-> 0,
     applied |-> {}, failed |-> {}, asked |-> {}, pending |-> None,
     meta0 |-> meta.last_update_date, dates |-> <<>>]

InitSetup ==
    /\ track = [s \in Symbols |-> NoTrack]
    /\ last = "none"
    /\ ConcIdle
    /\ FetchIdle
    /\ pool = [pc |-> "none", start |-> 0, results |-> <<>>]
    /\ task = <<>>
    /\ host = 0
    /\ live = NoLive
    /\ \E mode \in Modes : app = [NoApp EXCEPT !.pc = "setup", !.mode = mode]
    /\ filt = NoFilter
    /\ \E cores \in CoreCounts : client = NewClient(None, cores)
    /\ \/ /\ store = <<>>
          /\ meta = NoMeta
       \/ /\ store = BootstrappedStore(<<"AAA", "BBB">>)
          /\ \E age \in StoredAges :
                meta = [last_update_date |-> Some(Today - age), writes |-> 0]
       \/ /\ store = BootstrappedStore(<<"AAA", "BBB">>)
          /\ meta = NoMeta
    /\ \E monday \in BOOLEAN : setup = StartSetup(monday)

SetupBatchOf(start) ==
    {i \in 1..Len(setup.symbols) : i >= start /\ i < start + BatchSize}

NewTask(state) == [state |-> state, outcomes |-> NoOutcomes, runs |-> 0]

\* executor.submit for every symbol of the batch that begins at start
SetupSubmitted(symbols, start) ==
    [i \in 1..Len(symbols) |->
        IF i >= start /\ i < start + BatchSize THEN NewTask("queued")
        ELSE IF i < start THEN task[i]
        ELSE NewTask("unsubmitted")]

SetupFrame == UNCHANGED <<track, last, concVars, fetchVars, pool, host, client, live, app, filt>>

\* SetupMode.run, lines 30-36, and the beginning of the branch taken
RunStart ==
    /\ setup.pc = "start"
    /\ IF needs_setup(store)
       THEN \E nyse_ok, nasdaq_ok \in BOOLEAN :
              LET symbols == get_all_active_symbols(nyse_ok, nasdaq_ok)
              IN IF symbols = <<>>
                 THEN /\ setup' = [setup EXCEPT !.pc = "raised", !.mode = "bootstrap",
                                                !.exc = "ValueError"]
                      /\ task' = task
                 ELSE /\ setup' = [setup EXCEPT !.pc = "fetching", !.mode = "bootstrap",
                                                !.symbols = symbols, !.start = 1, !.k = 1]
                      /\ task' = [i \in 1..Len(symbols) |->
                                    NewTask(IF i <= BatchSize THEN "queued" ELSE "unsubmitted")]
       ELSE IF is_data_stale(meta.last_update_date, setup.monday)
            THEN /\ setup' = [setup EXCEPT !.pc = "backfill", !.mode = "backfill",
                                           !.symbols = get_all_symbols(store), !.k = 1]
                 /\ task' = task
            ELSE /\ setup' = [setup EXCEPT !.pc = "stamping", !.mode = "current"]
                 /\ task' = task
    /\ UNCHANGED <<store, meta>>
    /\ SetupFrame

SetupRunning == {i \in 1..Len(setup.symbols) : task[i].state = "running"}

\* A worker of the batch's executor takes the oldest queued future
SetupTaskStart(i) ==
    /\ setup.pc \in {"fetching", "draining"}
    /\ i <= Len(setup.symbols)
    /\ task[i].state = "queued"
    /\ Cardinality(SetupRunning) < client.max_workers
    /\ \A j \in 1..(i - 1) : task[j].state # "queued"
    /\ task' = [task EXCEPT ![i].state = "running", ![i].runs = @ + 1]
    /\ UNCHANGED <<store, meta, setup>>
    /\ SetupFrame

\* find_highest_volume_for_symbol runs to its end
SetupTaskFinish(i) ==
    /\ setup.pc \in {"fetching", "draining"}
    /\ i <= Len(setup.symbols)
    /\ task[i].state = "running"
    /\ \E outcomes \in SetupOutcomes :
        task' = [task EXCEPT ![i].state = "finished", ![i].outcomes = outcomes]
    /\ UNCHANGED <<store, meta, setup>>
    /\ SetupFrame

\* as_completed yields a finished future; its result is kept unless it is None
SetupCollect(i) ==
    /\ setup.pc = "fetching"
    /\ i <= Len(setup.symbols)
    /\ task[i].state = "finished"
    /\ LET result == find_highest_volume_for_symbol(setup.symbols[i], task[i].outcomes)
       IN setup' = IF IsSet(result)
                   THEN [setup EXCEPT !.results = Append(@, Get(result))]
                   ELSE [setup EXCEPT !.failed = @ \cup {setup.symbols[i]}]
    /\ task' = [task EXCEPT ![i].state = "collected"]
    /\ UNCHANGED <<store, meta>>
    /\ SetupFrame

\* _process_symbol_batch returns; the loop of line 77 begins
BatchFetched ==
    /\ setup.pc = "fetching"
    /\ \A i \in SetupBatchOf(setup.start) : task[i].state = "collected"
    /\ setup' = [setup EXCEPT !.pc = "storing", !.k = 1]
    /\ UNCHANGED <<store, meta, task>>
    /\ SetupFrame

\* The loop of line 69 goes on with the next batch, or _initial_setup goes on
\* after the loop
ContinueAfterBatch(sp) ==
    IF sp.start + BatchSize <= Len(sp.symbols)
    THEN /\ setup' = [sp EXCEPT !.pc = "fetching", !.start = @ + BatchSize,
                               !.results = <<>>, !.k = 1]
         /\ task' = SetupSubmitted(sp.symbols, sp.start + BatchSize)
    ELSE /\ setup' = [sp EXCEPT !.pc = "finishing"]
         /\ task' = task

\* An exception leaves the try block of line 72
RaiseInBatch(sp, exc) ==
    IF BatchHandlerCatches(exc)
    THEN ContinueAfterBatch(sp)
    ELSE /\ setup' = [sp EXCEPT !.pc = IF RunHandlerCatches(exc) THEN "raised"
                                       ELSE "interrupted",
                               !.exc = exc]
         /\ task' = task

\* insert_or_update_highest_volume for the next result of the batch, up to its
\* INSERT OR REPLACE; call_fails: the call raises a database error
StoreExecute(call_fails) ==
    /\ setup.pc = "storing"
    /\ setup.k <= Len(setup.results)
    /\ LET res == setup.results[setup.k]
           r == InsertOrUpdate(SelectRow(store, res.symbol), res.date, res.volume,
                               res.historical_data)
       IN IF call_fails
          THEN RaiseInBatch([setup EXCEPT !.failed = @ \cup {res.symbol}], "DatabaseError")
          ELSE /\ setup' = IF r.write
                           THEN [setup EXCEPT !.pc = "committing",
                                              !.pending = Some(<<res.symbol, r.row>>)]
                           ELSE [setup EXCEPT !.k = @ + 1,
                                              !.applied = @ \cup {res.symbol}]
               /\ task' = task
    /\ UNCHANGED <<store, meta>>
    /\ SetupFrame

\* conn.commit() of the call
StoreCommit ==
    /\ setup.pc = "committing"
    /\ store' = Replace(store, Get(setup.pending)[1], Get(setup.pending)[2])
    /\ setup' = [setup EXCEPT !.pc = "storing", !.pending = None, !.k = @ + 1,
                              !.applied = @ \cup {Get(setup.pending)[1]}]
    /\ UNCHANGED <<meta, task>>
    /\ SetupFrame

\* The results of the batch are stored
BatchStored ==
    /\ setup.pc = "storing"
    /\ setup.k > Len(setup.results)
    /\ ContinueAfterBatch(setup)
    /\ UNCHANGED <<store, meta>>
    /\ SetupFrame

\* _initial_setup, lines 91-101: statistics and the completion notification
FinishSetup(email_fails) ==
    /\ setup.pc = "finishing"
    /\ setup' = IF email_fails THEN [setup EXCEPT !.pc = "raised", !.exc = "EmailError"]
                ELSE [setup EXCEPT !.pc = "stamping"]
    /\ UNCHANGED <<store, meta, task>>
    /\ SetupFrame

\* The table after the first n bars were applied, each with the whole
\* daily_data as its history
RECURSIVE ApplyBars(_, _, _, _)
ApplyBars(table, symbol, daily_data, n) ==
    IF n = 0 THEN table
    ELSE Applied(ApplyBars(table, symbol, daily_data, n - 1), symbol,
                 MarketDate(daily_data[n].t), daily_data[n].v, daily_data)

BackfillWindow == (get_last_update_date + 1)..(Today - 1)

\* Variant: the days of the window walked from the latest to the earliest.
RECURSIVE DailyData_desc(_, _, _)
DailyData_desc(symbol, d, lost) ==
    IF d > Today - 1 THEN <<>>
    ELSE DailyData_desc(symbol, d + 1, lost) \o (IF d \in lost THEN <<>> ELSE DailyBars(symbol, d))

\* get_daily_aggregates day by day; a day whose request fails gives []
RECURSIVE DailyData(_, _, _)
DailyData(symbol, d, lost) ==
    IF d > Today - 1 THEN <<>>
    ELSE (IF d \in lost THEN <<>> ELSE DailyBars(symbol, d)) \o DailyData(symbol, d + 1, lost)

\* The days of the window whose request may fail
LostDays == {{}, {Today - 1}, BackfillWindow}

\* _backfill_stale_data, lines 178-210, for one symbol; fail_at: the call of
\* insert_or_update_highest_volume that raises (0: none)
BackfillSymbol(lost, fail_at) ==
    /\ setup.pc = "backfill"
    /\ setup.k <= Len(setup.symbols)
    /\ LET symbol == setup.symbols[setup.k]
           daily_data == DailyData(symbol, get_last_update_date + 1, lost)
           fails == fail_at > 0 /\ fail_at <= Len(daily_data)
           n == IF fails THEN fail_at - 1 ELSE Len(daily_data)
       IN /\ fail_at > 0 => fails
          /\ store' = ApplyBars(store, symbol, daily_data, n)
          /\ setup' = [setup EXCEPT
                          !.k = @ + 1,
                          !.dates = [i \in 1..n |-> MarketDate(daily_data[i].t)],
                          !.asked = @ \cup {<<symbol, d>> : d \in BackfillWindow},
                          !.applied = IF fails THEN @ ELSE @ \cup {symbol},
                          !.failed = IF fails THEN @ \cup {symbol} ELSE @]
    /\ UNCHANGED <<meta, task>>
    /\ SetupFrame

\* _backfill_stale_data returns
BackfillDone ==
    /\ setup.pc = "backfill"
    /\ setup.k > Len(setup.symbols)
    /\ setup' = [setup EXCEPT !.pc = "stamping"]
    /\ UNCHANGED <<store, meta, task>>
    /\ SetupFrame

\* Database.update_last_update_date: INSERT OR REPLACE of the key and commit;
\* a call that raises commits nothing
update_last_update_date_dirty(m, update_date, write_fails) ==
    [last_update_date |-> Some(update_date), writes |-> m.writes + 1]
update_last_update_date(m, update_date, write_fails) ==
    IF write_fails THEN m
    ELSE [last_update_date |-> Some(update_date), writes |-> m.writes + 1]

\* SetupMode.run, line 39 and the end of the run; write_fails: the call raises
Stamp(write_fails) ==
    /\ setup.pc = "stamping"
    /\ setup' = IF write_fails THEN [setup EXCEPT !.pc = "raised", !.exc = "DatabaseError"]
                ELSE [setup EXCEPT !.pc = "done"]
    /\ meta' = update_last_update_date(meta, Today, write_fails)
    /\ UNCHANGED <<store, task>>
    /\ SetupFrame

\* KeyboardInterrupt is raised in the main thread.  Inside the with block of
\* process_symbols_parallel it first meets the executor's shutdown(wait=True).
Interrupt ==
    /\ setup.pc \in {"fetching", "storing", "committing", "finishing", "backfill", "stamping"}
    /\ LET sp == [setup EXCEPT !.cancelled = TRUE, !.cancel_start = setup.start,
                               !.pending = None]
       IN IF setup.pc = "fetching"
          THEN /\ setup' = [sp EXCEPT !.pc = "draining", !.exc = "KeyboardInterrupt"]
               /\ task' = task
          ELSE IF setup.pc \in {"storing", "committing"}
               THEN RaiseInBatch(sp, "KeyboardInterrupt")
               ELSE /\ setup' = [sp EXCEPT !.pc = "interrupted", !.exc = "KeyboardInterrupt"]
                    /\ task' = task
    /\ UNCHANGED <<store, meta>>
    /\ SetupFrame

\* Every future of the batch has run: the executor's shutdown returns and the
\* exception leaves the with block
DrainDone ==
    /\ setup.pc = "draining"
    /\ \A i \in SetupBatchOf(setup.start) : task[i].state \in {"finished", "collected"}
    /\ RaiseInBatch(setup, setup.exc)
    /\ UNCHANGED <<store, meta>>
    /\ SetupFrame

\* main, lines 95-136 and its handlers: setup.run() returns and the requested
\* mode is started, or it raises and no statement of the try block follows
MainAfterSetup ==
    /\ app.pc = "setup"
    /\ setup.pc \in {"done", "raised", "interrupted"}
    /\ app' = IF setup.pc = "done"
              THEN [app EXCEPT !.pc = "mode"]
              ELSE [app EXCEPT !.pc = "exited", !.exc = setup.exc,
                               !.exit_code = MainExitCode(setup.exc)]
    /\ UNCHANGED <<storeVars, concVars, fetchVars, batchVars, setup, meta, live, filt>>

NextSetup ==
    \/ RunStart
    \/ \E i \in 1..Len(UniverseSymbols) : SetupTaskStart(i)
    \/ \E i \in 1..Len(UniverseSymbols) : SetupTaskFinish(i)
    \/ \E i \in 1..Len(UniverseSymbols) : SetupCollect(i)
    \/ BatchFetched
    \/ \E call_fails \in BOOLEAN : StoreExecute(call_fails)
    \/ StoreCommit
    \/ BatchStored
    \/ \E email_fails \in BOOLEAN : FinishSetup(email_fails)
    \/ \E lost \in LostDays, fail_at \in {0, 1} : BackfillSymbol(lost, fail_at)
    \/ BackfillDone
    \/ \E write_fails \in BOOLEAN : Stamp(write_fails)
    \/ Interrupt
    \/ DrainDone
    \/ MainAfterSetup

SpecSetup == InitSetup /\ [][NextSetup]_vars

(***************************************************************************)
(* RealtimeMode.run: the live poll loop and _perform_volume_check.  Time   *)
(* is counted in sleeps of the loop; a volume check is due at every        *)
(* CheckPeriod-th tick of the clock.                                       *)
(***************************************************************************)
\* The day volumes a snapshot can carry for a symbol: below, equal to and
\* above the highest volume of its history
LiveVolumes == {1, NumChunks, NumChunks + 1}

\* get_current_volumes: symbol -> day volume, for the known symbols that the
\* snapshot lists; the empty dict when the snapshot request fails
Snapshots ==
    UNION {[listed -> LiveVolumes] : listed \in SUBSET {"AAA", "BBB"}}

\* realtime_mode.py:42: the loop is left when the session signal is false
ExitsLoop_never(active) == FALSE
ExitsLoop(active) == ~active

\* The except clause of _perform_volume_check, line 162
CheckHandlerCatches_none(exc) == FALSE
CheckHandlerCatches(exc) == exc # "KeyboardInterrupt"

\* _get_next_check_time: the ticks left until the next mark after now
get_next_check_time(phase) == CheckPeriod - phase

StartLive(phase, active) ==
    [pc |-> "top", active |-> active, phase |-> phase, wait |-> get_next_check_time(phase),
     symbols |-> <<>>, k |-> 0, volumes |-> <<>>, hits |-> <<>>, failed |-> FALSE,
     tick_store |-> <<>>, tick |-> FALSE]

InitLive ==
    /\ store \in {<<>>, BootstrappedStore(<<"AAA", "BBB">>)}
    /\ track = [s \in Symbols |-> NoTrack]
    /\ last = "none"
    /\ ConcIdle
    /\ FetchIdle
    /\ BatchIdle
    /\ setup = NoSetup
    /\ meta = NoMeta
    /\ app = NoApp
    /\ filt = NoFilter
    /\ \E phase \in 0..(CheckPeriod - 1), active \in BOOLEAN : live = StartLive(phase, active)

LiveFrame == UNCHANGED <<track, last, concVars, fetchVars, batchVars, setup, meta, app, filt>>

\* The session signal (should_run_during_market_hours) changes
SignalChange ==
    /\ live.pc \notin {"none", "ended", "raised"}
    /\ live' = [live EXCEPT !.active = ~@]
    /\ UNCHANGED store
    /\ LiveFrame

\* run, lines 39-47: the signal is evaluated, then the clock is compared
LoopTop ==
    /\ live.pc = "top"
    /\ live' = IF ExitsLoop(live.active) THEN [live EXCEPT !.pc = "ended"]
               ELSE IF live.wait <= 0 THEN [live EXCEPT !.pc = "check_start"]
               ELSE [live EXCEPT !.pc = "sleeping"]
    /\ UNCHANGED store
    /\ LiveFrame

\* An exception inside the try block of _perform_volume_check
RaiseInCheck(lv, exc) ==
    IF CheckHandlerCatches(exc)
    THEN [lv EXCEPT !.pc = "scheduling", !.failed = TRUE]
    ELSE [lv EXCEPT !.pc = "raised"]

\* _perform_volume_check, lines 94-114; db_fails: get_all_symbols raises
CheckStart(db_fails, current_volumes) ==
    /\ live.pc = "check_start"
    /\ LET lv == [live EXCEPT !.failed = FALSE, !.hits = <<>>, !.tick_store = store,
                              !.symbols = <<>>, !.volumes = <<>>, !.k = 0, !.tick = ~@]
           symbols == get_all_symbols(store)
       IN live' = IF db_fails THEN RaiseInCheck(lv, "DatabaseError")
                  ELSE IF symbols = <<>> \/ DOMAIN current_volumes = {}
                       THEN [lv EXCEPT !.pc = "scheduling"]
                  ELSE [lv EXCEPT !.pc = "check", !.symbols = symbols,
                                  !.volumes = current_volumes, !.k = 1]
    /\ UNCHANGED store
    /\ LiveFrame

\* The hits of lines 138-148 for one symbol
HitsOf(symbol, stored_data, current_volume, flags, table) ==
    LET year_record == get_highest_volume_year(table, symbol)
    IN (IF flags.ever_updated
        THEN <<[symbol |-> symbol, date |-> stored_data[1], volume |-> stored_data[2],
                observed |-> current_volume, kind |-> "Ever"]>>
        ELSE <<>>)
       \o (IF flags.year_updated /\ IsSet(year_record)
           THEN <<[symbol |-> symbol, date |-> Get(year_record)[1],
                   volume |-> Get(year_record)[2],
                   observed |-> current_volume, kind |-> "Year"]>>
           ELSE <<>>)

\* Variant: a symbol the snapshot does not list is checked with volume 0.
CheckedVolume_default(symbol, current_volumes, stored_data) ==
    IF symbol \notin DOMAIN current_volumes THEN Some(0)
    ELSE Some(current_volumes[symbol])

\* Lines 117-126: the volume the round goes on with, None when it skips the
\* symbol (not in current_volumes, or no stored record)
CheckedVolume(symbol, current_volumes, stored_data) ==
    IF symbol \notin DOMAIN current_volumes THEN None
    ELSE IF ~IsSet(stored_data) THEN None
    ELSE Some(current_volumes[symbol])

\* One round of the loop of line 116; call_fails: a store call raises
CheckSymbol(call_fails) ==
    /\ live.pc = "check"
    /\ live.k <= Len(live.symbols)
    /\ LET symbol == live.symbols[live.k]
           stored_data == get_highest_volume(store, symbol)
           checked == CheckedVolume(symbol, live.volumes, stored_data)
       IN IF ~IsSet(checked)
          THEN /\ ~call_fails
               /\ live' = [live EXCEPT !.k = @ + 1]
               /\ store' = store
          ELSE IF call_fails
          THEN /\ live' = RaiseInCheck(live, "DatabaseError")
               /\ store' = store
          ELSE LET current_volume == Get(checked)
                   r == InsertOrUpdate(SelectRow(store, symbol), Today, current_volume, <<>>)
                   table == Applied(store, symbol, Today, current_volume, <<>>)
               IN /\ store' = table
                  /\ live' = [live EXCEPT
                                 !.k = @ + 1,
                                 !.hits = @ \o HitsOf(symbol, Get(stored_data), current_volume,
                                                      r, table)]
    /\ LiveFrame

\* Lines 150-160: the notification of the hits; email_fails: it raises
CheckReport(email_fails) ==
    /\ live.pc = "check"
    /\ live.k > Len(live.symbols)
    /\ email_fails => live.hits # <<>>
    /\ live' = IF email_fails THEN RaiseInCheck(live, "EmailError")
               ELSE [live EXCEPT !.pc = "scheduling"]
    /\ UNCHANGED store
    /\ LiveFrame

\* run, line 52: the next check is scheduled
Schedule ==
    /\ live.pc = "scheduling"
    /\ live' = [live EXCEPT !.pc = "sleeping", !.wait = get_next_check_time(live.phase)]
    /\ UNCHANGED store
    /\ LiveFrame

\* run, lines 56-59: heartbeat and time.sleep(60)
Sleep ==
    /\ live.pc = "sleeping"
    /\ live' = [live EXCEPT !.pc = "top", !.phase = (@ + 1) % CheckPeriod, !.wait = @ - 1]
    /\ UNCHANGED store
    /\ LiveFrame

LoopStep ==
    \/ LoopTop
    \/ \E db_fails \in BOOLEAN, current_volumes \in Snapshots : CheckStart(db_fails, current_volumes)
    \/ \E call_fails \in BOOLEAN : CheckSymbol(call_fails)
    \/ \E email_fails \in BOOLEAN : CheckReport(email_fails)
    \/ Schedule
    \/ Sleep

NextLive == SignalChange \/ LoopStep

SpecLive == InitLive /\ [][NextLive]_vars

\* The thread of the loop keeps running: a sleep returns and every call of a
\* tick returns or raises
SpecLiveFair == SpecLive /\ WF_vars(LoopStep)

(***************************************************************************)
(* The events query on stores of several symbols                           *)
(***************************************************************************)
QuerySymbols == {"AAA", "BBB"}

InitQuery ==
    /\ store = <<>>
    /\ track = [s \in Symbols |-> NoTrack]
    /\ last = "none"
    /\ ConcIdle
    /\ FetchIdle
    /\ BatchIdle
    /\ PassIdle

QueryFrame == UNCHANGED <<track, last, writer, seen, store0, fetchVars, batchVars, passVars>>

\* insert_or_update_highest_volume on one of the symbols
QueryApply(symbol, volume_date, volume, historical_data) ==
    /\ store' = Applied(store, symbol, volume_date, volume, historical_data)
    /\ reader' = IdleReader
    /\ QueryFrame

\* batch_insert_highest_volumes with one record
QueryBatchInsert(symbol, volume_date, volume) ==
    /\ store' = Replace(store, symbol,
                        [date |-> volume_date, volume |-> volume,
                         highest_volume_year |-> None,
                         highest_volume_year_date |-> None])
    /\ reader' = IdleReader
    /\ QueryFrame

\* get_events_since_date(since_date)
QueryEvents(since_date) ==
    /\ reader' = [pc |-> "done", op |-> "events", since_date |-> since_date,
                  results |-> get_events_since_date(store, since_date)]
    /\ UNCHANGED store
    /\ QueryFrame

\* get_highest_volume(symbol), get_highest_volume_year(symbol), get_all_symbols()
QueryOps == {"get", "get_year", "symbols"}

QueryGet(op, symbol) ==
    /\ reader' = [pc |-> "done", op |-> op, since_date |-> 0,
                  results |-> IF op = "symbols" THEN get_all_symbols(store)
                              ELSE QueryOn(op, store, symbol, 0)]
    /\ UNCHANGED store
    /\ QueryFrame

NextQuery ==
    \/ \E symbol \in QuerySymbols, volume_date \in Dates, volume \in Volumes,
          historical_data \in WriterHistories("backfill") :
            QueryApply(symbol, volume_date, volume, historical_data)
    \/ \E symbol \in QuerySymbols, volume_date \in Dates, volume \in Volumes :
            QueryBatchInsert(symbol, volume_date, volume)
    \/ \E since_date \in Dates : QueryEvents(since_date)

SpecQuery == InitQuery /\ [][NextQuery]_vars

(***************************************************************************)
(* Calls and queries on a store that has a last update date.  last is the  *)
(* symbol of the latest insert_or_update_highest_volume call.              *)
(***************************************************************************)
InitTouch ==
    /\ store = <<>>
    /\ track = [s \in Symbols |-> NoTrack]
    /\ last = "none"
    /\ ConcIdle
    /\ FetchIdle
    /\ BatchIdle
    /\ setup = NoSetup
    /\ live = NoLive
    /\ app = NoApp
    /\ filt = NoFilter
    /\ meta \in {NoMeta, update_last_update_date(NoMeta, Today, FALSE)}

\* insert_or_update_highest_volume on one of the symbols
TouchApply(symbol, volume_date, volume, historical_data) ==
    /\ store' = Applied(store, symbol, volume_date, volume, historical_data)
    /\ last' = symbol
    /\ reader' = IdleReader
    /\ UNCHANGED <<track, writer, seen, store0, fetchVars, batchVars, passVars>>

NextTouch ==
    \/ \E symbol \in QuerySymbols, volume_date \in Dates, volume \in Volumes,
          historical_data \in WriterHistories("backfill") :
            TouchApply(symbol, volume_date, volume, historical_data)
    \/ \E since_date \in Dates : QueryEvents(since_date)
    \/ \E op \in QueryOps, symbol \in QuerySymbols : QueryGet(op, symbol)

SpecTouch == InitTouch /\ [][NextTouch]_vars

(***************************************************************************)
(* Database.batch_insert_highest_volumes on a list of records.  last is    *)
(* the latest call of the store and the records it was given.              *)
(***************************************************************************)
MaxRecords == 2

\* records: lists of (symbol, volume_date, volume)
BatchRecords ==
    SeqsUpTo([symbol : QuerySymbols, volume_date : {1}, volume : {1, MaxVolume}],
             MaxRecords)

\* Variant: INSERT OR IGNORE, a stored row is kept.
InsertOrReplaceRecord_ignore(table, record) ==
    IF record.symbol \in DOMAIN table THEN table
    ELSE Replace(table, record.symbol,
                 [date |-> record.volume_date, volume |-> record.volume,
                  highest_volume_year |-> None,
                  highest_volume_year_date |-> None])

\* One execution of INSERT OR REPLACE INTO highest_volume_ever (symbol, date,
\* volume): the columns that are not listed take their default, NULL
InsertOrReplaceRecord(table, record) ==
    Replace(table, record.symbol,
            [date |-> record.volume_date, volume |-> record.volume,
             highest_volume_year |-> None,
             highest_volume_year_date |-> None])

\* executemany: the statement is executed for each record in list order
RECURSIVE ExecuteMany(_, _)
ExecuteMany(table, records) ==
    IF records = <<>> THEN table
    ELSE ExecuteMany(InsertOrReplaceRecord(table, Head(records)), Tail(records))

NoCall == [call |-> "none", records |-> <<>>]

InitLoad ==
    /\ store = <<>>
    /\ track = [s \in Symbols |-> NoTrack]
    /\ last = NoCall
    /\ ConcIdle
    /\ FetchIdle
    /\ BatchIdle
    /\ PassIdle

LoadFrame == UNCHANGED <<track, concVars, fetchVars, batchVars, passVars>>

\* insert_or_update_highest_volume on one of the symbols
LoadApply(symbol, volume_date, volume, historical_data) ==
    /\ store' = Applied(store, symbol, volume_date, volume, historical_data)
    /\ last' = [call |-> "insert_or_update_highest_volume", records |-> <<>>]
    /\ LoadFrame

\* batch_insert_highest_volumes(records) that commits
LoadBatch(records) ==
    /\ store' = ExecuteMany(store, records)
    /\ last' = [call |-> "batch_insert_highest_volumes", records |-> records]
    /\ LoadFrame

\* batch_insert_highest_volumes(records) whose executemany or commit raises:
\* _get_connection rolls back and the exception leaves the call
LoadBatchRaises(records) ==
    /\ store' = store
    /\ last' = [call |-> "raised", records |-> <<>>]
    /\ LoadFrame

NextLoad ==
    \/ \E symbol \in QuerySymbols, volume_date \in Dates, volume \in Volumes,
          historical_data \in WriterHistories("live") :
            LoadApply(symbol, volume_date, volume, historical_data)
    \/ \E records \in BatchRecords : LoadBatch(records)
    \/ \E records \in BatchRecords : LoadBatchRaises(records)

SpecLoad == InitLoad /\ [][NextLoad]_vars

(***************************************************************************)
(* PolygonClient.get_historical_data_chunks: the date ranges it requests.  *)
(* A range (current_start, current_end) is sent to get_daily_aggregates,   *)
(* whose endpoint takes both dates as inclusive.                           *)
(***************************************************************************)
chunk_size == 365
\* timedelta(days=years_back * 365)
days_per_year == 365
MaxYearsBack == 20

\* years_back: every value up to MaxYearsBack, and the first one whose range
\* is a whole number of chunk steps
YearsBackInputs == (0..MaxYearsBack) \cup {chunk_size + 1}

\* while current_start < end_date
LoopGoesOn(current_start, end_date) == current_start < end_date

InitChunks ==
    /\ store = <<>>
    /\ track = [s \in Symbols |-> NoTrack]
    /\ last = "none"
    /\ ConcIdle
    /\ req = NoRequest
    /\ fetch = NoFetch
    /\ BatchIdle
    /\ PassIdle
    /\ \E years_back \in YearsBackInputs :
        chunk = [pc |-> "running", start_date |-> Today - years_back * days_per_year,
                 end_date |-> Today, current_start |-> Today - years_back * days_per_year,
                 requests |-> <<>>]

\* One pass of the loop, lines 221-228
ChunkRequested ==
    /\ chunk.pc = "running"
    /\ LoopGoesOn(chunk.current_start, chunk.end_date)
    /\ LET current_end == Min2(chunk.current_start + chunk_size, chunk.end_date)
       IN chunk' = [chunk EXCEPT !.requests = Append(@, <<chunk.current_start, current_end>>),
                                 !.current_start = current_end + 1]
    /\ UNCHANGED <<storeVars, concVars, req, fetch, batchVars, passVars>>

\* The loop ends, line 230
ChunksReturned ==
    /\ chunk.pc = "running"
    /\ ~LoopGoesOn(chunk.current_start, chunk.end_date)
    /\ chunk' = [chunk EXCEPT !.pc = "returned"]
    /\ UNCHANGED <<storeVars, concVars, req, fetch, batchVars, passVars>>

NextChunks == ChunkRequested \/ ChunksReturned

SpecChunks == InitChunks /\ [][NextChunks]_vars

(***************************************************************************)
(* PolygonClient.passes_data_universe_filters as a call: the bars it is    *)
(* given (or fetches for the last 20 days), and its try block.             *)
(***************************************************************************)
\* The sessions a symbol can have: volumes in thousands of shares (none, at
\* the threshold with a close of 10.00, above it), closes in cents (none,
\* below the floor, at the floor, 10.00)
SessionVolumes == {0, 1000, 2000}
SessionCloses == {0, 200, PriceFloorCents, 1000}
SessionBars == [v : SessionVolumes, c : SessionCloses]

\* Histories of no bar, and of one bar fewer than, exactly and one bar more
\* than the sessions averaged: the same bar throughout but for one position
SessionLengths == {0, SmaSessions - 1, SmaSessions, SmaSessions + 1}
SessionHistories ==
    {[i \in 1..n |-> IF i = pos THEN odd ELSE base] :
        n \in SessionLengths, base \in SessionBars, odd \in SessionBars,
        pos \in 1..(SmaSessions + 1)}

InitFilter ==
    /\ store = <<>>
    /\ track = [s \in Symbols |-> NoTrack]
    /\ last = "none"
    /\ ConcIdle
    /\ FetchIdle
    /\ BatchIdle
    /\ setup = NoSetup
    /\ meta = NoMeta
    /\ live = NoLive
    /\ app = NoApp
    /\ \E historical_data \in SessionHistories :
        filt = [NoFilter EXCEPT !.pc = "called", !.historical_data = historical_data]

\* The call returns what the body computes
FilterReturned ==
    /\ filt.pc = "called"
    /\ filt' = [filt EXCEPT !.pc = "returned",
                            !.result = passes_data_universe_filters(filt.historical_data)]
    /\ UNCHANGED <<storeVars, concVars, fetchVars, batchVars, setup, meta, live, app>>

\* An exception inside the try block: the handler of line 377 returns False
FilterRaised ==
    /\ filt.pc = "called"
    /\ filt' = [filt EXCEPT !.pc = "returned", !.exc = "Exception", !.result = FALSE]
    /\ UNCHANGED <<storeVars, concVars, fetchVars, batchVars, setup, meta, live, app>>

NextFilter == FilterReturned \/ FilterRaised

SpecFilter == InitFilter /\ [][NextFilter]_vars

(***************************************************************************)
(* main._send_last_market_day_report                                       *)
(***************************************************************************)
\* The methods class Database defines
DatabaseMethods ==
    {"needs_setup", "is_data_stale", "update_last_update_date",
     "insert_or_update_highest_volume", "get_highest_volume", "get_highest_volume_year",
     "get_all_symbols", "get_events_since_date", "get_database_stats",
     "batch_insert_highest_volumes"}

\* The methods class MarketStatusChecker defines
MarketStatusCheckerMethods ==
    {"get_market_status", "get_upcoming_market_info", "is_market_open",
     "get_market_close_time_cst", "is_early_close_day", "get_effective_close_time_cst",
     "should_run_during_market_hours", "get_status_summary"}

\* obj.name(...): AttributeError when the class of obj defines no such method
CallRaises(methods, name) == IF name \in methods THEN "none" ELSE "AttributeError"

\* The except clause of _send_last_market_day_report, line 204
ReportHandlerCatches(exc) == exc # "KeyboardInterrupt"

\* day: the last complete trading day at the time of the call
InitReport ==
    /\ store = <<>>
    /\ track = [s \in Symbols |-> NoTrack]
    /\ last = "none"
    /\ ConcIdle
    /\ FetchIdle
    /\ BatchIdle
    /\ setup = NoSetup
    /\ meta = NoMeta
    /\ live = NoLive
    /\ \E day \in Dates : app = [NoApp EXCEPT !.pc = "report", !.mode = "realtime", !.day = day]
    /\ filt = NoFilter

\* _send_last_market_day_report, lines 187-206: the first call that raises
\* ends the try block; the handler logs and returns
send_last_market_day_report ==
    /\ app.pc = "report"
    /\ LET exc1 == CallRaises(MarketStatusCheckerMethods, "get_last_complete_market_day")
           exc2 == CallRaises(DatabaseMethods, "get_events_for_date")
           exc == IF exc1 # "none" THEN exc1 ELSE exc2
       IN /\ exc # "none" => ReportHandlerCatches(exc)
          /\ app' = [app EXCEPT !.pc = "reported", !.exc = exc, !.sent = (exc = "none")]
    /\ UNCHANGED <<storeVars, concVars, fetchVars, batchVars, setup, meta, live, filt>>

NextReport ==
    \/ \E symbol \in QuerySymbols, volume_date \in Dates, volume \in Volumes,
          historical_data \in WriterHistories("backfill") :
            QueryApply(symbol, volume_date, volume, historical_data)
    \/ \E symbol \in QuerySymbols, volume_date \in Dates, volume \in Volumes :
            QueryBatchInsert(symbol, volume_date, volume)
    \/ send_last_market_day_report

SpecReport == InitReport /\ [][NextReport]_vars

(***************************************************************************)
(* Properties of the store                                                 *)
(***************************************************************************)
YearVolumeOf(row) ==
    IF IsSet(row.highest_volume_year) THEN Get(row.highest_volume_year) ELSE 0

\* C1: after any sequence of insert_or_update_highest_volume calls on a symbol
\* (no write failure, no batch insert), the stored ever volume is the maximum
\* volume passed and the stored ever date is the date of the first call that
\* passed that maximum.
C1_EverIsFirstMax ==
    \A s \in DOMAIN store :
        track[s].only_applied =>
            /\ track[s].called
            /\ store[s].volume = track[s].max_volume
            /\ store[s].date = track[s].max_date

\* The maximum was passed on an early date and later calls did not replace it.
C1_Witness ==
    /\ last = "apply"
    /\ \E s \in DOMAIN store :
        /\ track[s].only_applied
        /\ store[s].volume = MaxVolume
        /\ store[s].date < track[s].latest

\* C2: every symbol's ever volume is >= its year volume (unset counting as 0).
C2_EverGeYear ==
    \A s \in DOMAIN store : store[s].volume >= YearVolumeOf(store[s])

\* The true maximum volume of the bars whose exchange-local date lies in
\* [volume_date - 365, volume_date]; 0 when there is none.
WindowVolumes(historical_data, volume_date) ==
    {historical_data[i].v : i \in {j \in 1..Len(historical_data) :
        /\ MarketDate(historical_data[j].t) >= volume_date - YearDays
        /\ MarketDate(historical_data[j].t) <= volume_date}}

WindowMax(historical_data, volume_date) ==
    LET vs == WindowVolumes(historical_data, volume_date) \cup {0}
    IN CHOOSE m \in vs : \A x \in vs : x <= m

\* C3: a call that finds the stored year date older than volume_date - 365 days
\* and is given historical_data stores as year volume the maximum of volume and
\* the in-window bar volumes, returns yearUpdated, and leaves the ever fields
\* alone when volume does not exceed the stored ever volume.
C3_RecomputeIsWindowMax ==
    \A s \in DOMAIN store, d \in Dates, v \in Volumes, h \in Histories :
        LET row == store[s]
            r == InsertOrUpdate(Some(row), d, v, h)
            after == Applied(store, s, d, v, h)[s]
        IN (/\ IsSet(row.highest_volume_year_date)
            /\ Get(row.highest_volume_year_date) < d - YearDays
            /\ Len(h) > 0)
           => /\ r.year_updated
              /\ YearVolumeOf(after) = Max2(v, WindowMax(h, d))
              /\ (v <= row.volume => after.date = row.date /\ after.volume = row.volume)

\* A recompute has just happened and a bar of the history, not the observation,
\* holds the year record.
C3_Witness ==
    /\ last = "apply_recomputed"
    /\ \E s \in DOMAIN store :
        /\ IsSet(store[s].highest_volume_year_date)
        /\ Get(store[s].highest_volume_year_date) < track[s].latest
        /\ YearVolumeOf(store[s]) > 0
        /\ store[s].volume > YearVolumeOf(store[s])

\* C4: a second call with identical arguments right after the first returns
\* (False, False) and leaves the row unchanged.
C4_Idempotent ==
    \A s \in Symbols, d \in Dates, v \in Volumes, h \in Histories :
        LET once == Applied(store, s, d, v, h)
            r2 == InsertOrUpdate(SelectRow(once, s), d, v, h)
        IN /\ ~r2.ever_updated
           /\ ~r2.year_updated
           /\ Applied(once, s, d, v, h) = once

\* From a reachable row, a first call that updates both records through a
\* recompute, and whose repetition changes nothing.
C4_Witness ==
    /\ last # "none"
    /\ \E s \in DOMAIN store, d \in Dates, v \in Volumes, h \in Histories :
        LET r1 == InsertOrUpdate(SelectRow(store, s), d, v, h)
            once == Applied(store, s, d, v, h)
        IN /\ r1.ever_updated /\ r1.year_updated /\ r1.aged /\ Len(h) > 0
           /\ once # store
           /\ Applied(once, s, d, v, h) = once

\* C7 as claimed: the year date is never more than 365 days before the latest
\* applied observation date, whatever the order of the dates.
C7_YearDateWithinWindow ==
    \A s \in DOMAIN store :
        (track[s].called /\ IsSet(store[s].highest_volume_year_date))
            => Get(store[s].highest_volume_year_date) >= track[s].latest - YearDays

\* C7 amended: the same, for observations applied in non-decreasing date order.
C7_YearDateWithinWindowChrono ==
    \A s \in DOMAIN store :
        (track[s].called /\ track[s].chrono /\ IsSet(store[s].highest_volume_year_date))
            => Get(store[s].highest_volume_year_date) >= track[s].latest - YearDays

\* In chronological order, a year record that aged out was recomputed and now
\* sits on the first day of the window of the latest date.
C7_Witness ==
    /\ last = "apply_recomputed"
    /\ \E s \in DOMAIN store :
        /\ track[s].chrono
        /\ IsSet(store[s].highest_volume_year_date)
        /\ Get(store[s].highest_volume_year_date) = track[s].latest - YearDays

(***************************************************************************)
(* Properties of concurrent calls                                          *)
(***************************************************************************)
\* The table after the call of writer w, run alone on table
AppliedBy(table, w) ==
    Applied(table, ConcSymbol, writer[w].volume_date, writer[w].volume,
            writer[w].historical_data)

\* C5: two concurrent insert_or_update_highest_volume calls on one symbol leave
\* the row that some serial order of the two calls leaves; in particular the
\* ever volume is the maximum of the prior ever volume and both volumes.
C5_Serializable ==
    (\A w \in Writers : writer[w].pc = "done") =>
        /\ \/ store = AppliedBy(AppliedBy(store0, "backfill"), "live")
           \/ store = AppliedBy(AppliedBy(store0, "live"), "backfill")
        /\ store[ConcSymbol].volume =
               Max2(IF ConcSymbol \in DOMAIN store0 THEN store0[ConcSymbol].volume ELSE 0,
                    Max2(writer["backfill"].volume, writer["live"].volume))

\* C6: a query that runs concurrently with insert_or_update_highest_volume
\* returns what it would return on one of the tables that existed while it ran
\* (the complete row before the update or the complete row after it).
C6_NoHalfAppliedRead ==
    reader.pc = "done" =>
        \E t \in seen : reader.results = QueryOn(reader.op, t, ConcSymbol, reader.since_date)

(***************************************************************************)
(* Properties of the fetch client                                          *)
(***************************************************************************)
\* C8: one fetch-client call issues at most 4 HTTP attempts in total over all
\* retry layers, waits 2^attempt seconds between attempts, and raises only once
\* the 4 attempts are used up.
C8_FourAttemptsInTotal ==
    /\ req.http <= max_retries + 1
    /\ \A i \in 1..Len(req.waits) : req.waits[i] = 2 ^ (i - 1)
    /\ (req.pc = "raised" /\ ViaMakeRequest) => req.http = max_retries + 1

\* C9: when a request of a multi-request fetch failed after its retries, the
\* caller receives a failure (the returned value is a plain list and carries no
\* partial-result marker).
C9_FailureIsVisible ==
    (fetch.pc \in {"returned", "raised"} /\ fetch.failed # {}) => fetch.pc = "raised"

(***************************************************************************)
(* Properties of the parallel orchestrator                                 *)
(***************************************************************************)
\* find_highest_volume_parallel, line 290: the dict built from the results
ResultDict ==
    [sym \in {pool.results[k][1] : k \in 1..Len(pool.results)} |->
        LET k == CHOOSE k \in 1..Len(pool.results) :
                    /\ pool.results[k][1] = sym
                    /\ \A m \in 1..Len(pool.results) : pool.results[m][1] = sym => m <= k
        IN <<pool.results[k][2], pool.results[k][3]>>]

\* A symbol fails permanently when a request of its fetch used up the retry budget
PermanentlyFailed ==
    {BatchSymbols[i] : i \in {j \in 1..Len(BatchSymbols) :
        \E c \in 1..NumChunks : task[j].outcomes[c] = "permanent"}}

\* The highest volume of the symbol's history and the exchange-local date of
\* the earliest bar that carries it
CorrectEntry(symbol) ==
    LET top == CHOOSE m \in {ServerVolume(symbol, c) : c \in 1..NumChunks} :
                  \A c \in 1..NumChunks : ServerVolume(symbol, c) <= m
        first == CHOOSE c \in 1..NumChunks :
                    /\ ServerVolume(symbol, c) = top
                    /\ \A e \in 1..NumChunks : ServerVolume(symbol, e) = top => c <= e
    IN <<MarketDate(ServerBars(symbol, first)[1].t), top>>

\* C10: the result of a batch of K symbols of which N fail permanently has
\* exactly one entry for each of the K - N other symbols, with that symbol's
\* correct (date, volume).
C10_ExactlyTheSurvivors ==
    pool.pc = "returned" =>
        /\ DOMAIN ResultDict = {BatchSymbols[i] : i \in 1..Len(BatchSymbols)} \ PermanentlyFailed
        /\ \A sym \in DOMAIN ResultDict : ResultDict[sym] = CorrectEntry(sym)

\* C11: at most max_workers executions are in flight, max_workers never exceeds
\* the ceiling of 20 however the client was constructed, no task of a later
\* batch has started while a task of the batch in progress is unfinished, and
\* at the return every symbol's function has been executed exactly once.
C11_BoundedPool ==
    pool.pc # "none" =>
        /\ Cardinality(Running) <= client.max_workers
        /\ client.max_workers <= WorkerCeiling
        /\ \A i, j \in 1..Len(BatchSymbols) :
              (i < pool.start /\ j >= pool.start) =>
                  (task[j].runs > 0 => task[i].state \in {"finished", "collected"})
        /\ \A i \in 1..Len(BatchSymbols) : task[i].runs <= 1
        /\ pool.pc = "returned" => \A i \in 1..Len(BatchSymbols) : task[i].runs = 1

(***************************************************************************)
(* Properties of the setup run                                             *)
(***************************************************************************)
\* The rows a call of insert_or_update_highest_volume of the bootstrap can
\* write for a symbol
BootstrapRows(symbol) ==
    {LET r == Get(find_highest_volume_for_symbol(symbol, outcomes))
     IN Applied(<<>>, symbol, r.date, r.volume, r.historical_data)[symbol] :
        outcomes \in {o \in SetupOutcomes : IsSet(find_highest_volume_for_symbol(symbol, o))}}

RunEnded == setup.pc \in {"done", "raised", "interrupted"}

\* C12: after an interrupt of a bootstrap pass no task of a batch that had not
\* started is started, the pass does not go back to fetching, at the end of
\* the run no per-symbol execution is unfinished, and every record of the
\* store is the complete row of one insert_or_update_highest_volume call.
C12_CancellationDrains ==
    (setup.mode = "bootstrap" /\ setup.cancelled) =>
        /\ setup.pc \in {"draining", "interrupted"}
        /\ \A j \in 1..Len(setup.symbols) :
              j >= setup.cancel_start + BatchSize => task[j].runs = 0
        /\ RunEnded => \A j \in 1..Len(setup.symbols) :
                          task[j].state \in {"unsubmitted", "finished", "collected"}
        /\ \A s \in DOMAIN store : store[s] \in BootstrapRows(s)

\* A pass of three symbols was interrupted while its first batch was being
\* fetched; a task of that batch finished during the shutdown of the executor
C12_Witness ==
    /\ setup.mode = "bootstrap"
    /\ setup.pc = "interrupted"
    /\ setup.cancel_start = 1
    /\ Len(setup.symbols) > BatchSize
    /\ task[1].state = "finished"
    /\ task[1].runs = 1

\* C13: after a bootstrap pass every symbol that has a record in the store
\* passed the universe filter.
C13_StoreIsFiltered ==
    (setup.mode = "bootstrap" /\ setup.pc = "done") =>
        \A s \in DOMAIN store : passes_data_universe_filters(RecentSessions(s))

\* C14: when the pass of a bootstrap or of a catch-up has run to its end, every
\* symbol of the pass that did not fail itself was fetched and applied.
C14_FailureSkipsOnlyThatSymbol ==
    (setup.mode \in {"bootstrap", "backfill"} /\ setup.pc \in {"finishing", "stamping", "done"}) =>
        \A i \in 1..Len(setup.symbols) :
            setup.symbols[i] \in setup.failed \cup setup.applied

\* C15: a catch-up pass has requested, for every known symbol, every date from
\* the stored last_update_date + 1 through yesterday.
C15_NoDateLeftUnfetched ==
    (setup.mode = "backfill" /\ setup.pc \in {"stamping", "done"} /\ IsSet(setup.meta0)) =>
        \A i \in 1..Len(setup.symbols) :
            \A d \in (Get(setup.meta0) + 1)..(Today - 1) :
                <<setup.symbols[i], d>> \in setup.asked

\* C16: a run that completes has written last_update_date exactly once, a run
\* that raised has left it as it was, and it is never written before the
\* bootstrap or catch-up work of the run has finished.
C16_StampedOncePerCompletedRun ==
    setup.pc # "none" =>
        /\ setup.pc = "done" => (meta.writes = 1 /\ meta.last_update_date = Some(Today))
        /\ setup.pc \in {"raised", "interrupted"} =>
              (meta.writes = 0 /\ meta.last_update_date = setup.meta0)
        /\ meta.writes > 0 => setup.pc = "done"

\* A catch-up run has completed and advanced the stored date
C16_Witness ==
    /\ setup.pc = "done"
    /\ setup.mode = "backfill"
    /\ setup.applied # {}
    /\ meta.writes = 1
    /\ IsSet(setup.meta0)
    /\ meta.last_update_date # setup.meta0

(***************************************************************************)
(* Properties of the live poll loop                                        *)
(***************************************************************************)
\* C17: every hit of a tick carries as (date, volume) the value its watermark
\* had before the tick's update, and as observed volume the volume applied.
C17_HitsCarryPriorValues ==
    \A i \in 1..Len(live.hits) :
        LET hit == live.hits[i]
            prior == live.tick_store[hit.symbol]
        IN /\ hit.observed = live.volumes[hit.symbol]
           /\ hit.kind = "Ever" => (hit.date = prior.date /\ hit.volume = prior.volume)
           /\ hit.kind = "Year" => /\ prior.highest_volume_year_date = Some(hit.date)
                                   /\ prior.highest_volume_year = Some(hit.volume)

\* C18: the session signal is evaluated at the start of every iteration; when
\* it is false the loop ends with no further volume check and no store
\* write; a volume check begins only in an iteration whose evaluation was
\* true; and if the signal stays false from some time on, the loop ends.
C18_StopsWhenSessionEnds ==
    /\ [][(live.pc = "top" /\ live'.pc # "top") =>
             IF live.active THEN live'.pc \in {"check_start", "sleeping"}
             ELSE live'.pc = "ended"]_vars
    /\ [][live.pc = "ended" => (live'.pc = "ended" /\ store' = store)]_vars
    /\ [][(live'.pc = "check_start" /\ live.pc # "check_start") =>
             (live.pc = "top" /\ live.active)]_vars
    /\ (<>[](~live.active)) => <>(live.pc = "ended")

\* The loop has ended on a false signal after a tick that changed the store
C18_Witness ==
    /\ live.pc = "ended"
    /\ ~live.active
    /\ live.hits # <<>>
    /\ store # live.tick_store

\* C19: a failure inside a volume check never ends the loop: the tick ends,
\* the next check is scheduled, and while the session stays active a next
\* volume check begins.
C19_TickFailureIsContained ==
    /\ [](live.pc # "raised")
    /\ [][(live.pc \in {"check_start", "check"} /\ live'.failed /\ live'.pc # live.pc) =>
             live'.pc = "scheduling"]_vars
    /\ \A b \in BOOLEAN :
          (live.failed /\ live.tick = b) ~> (live.tick # b \/ ~live.active)

\* A tick failed after it had written a record, and the loop is at its top
\* again with the session active
C19_Witness ==
    /\ live.failed
    /\ live.pc = "top"
    /\ live.active
    /\ store # live.tick_store

(***************************************************************************)
(* Properties of the events query                                          *)
(***************************************************************************)
EntriesOf(results, symbol, kind) ==
    {i \in 1..Len(results) : results[i].symbol = symbol /\ results[i].kind = kind}

\* C20: the result has exactly one Ever entry for every record with ever date
\* >= d, exactly one Year entry for every record with a set year date >= d,
\* no other entry, and is ordered by date descending, then volume descending.
C20_EventsSince ==
    (reader.pc = "done" /\ reader.op = "events") =>
        LET results == reader.results
            d == reader.since_date
        IN /\ \A i \in 1..Len(results) :
                 results[i].symbol \in DOMAIN store /\ results[i].kind \in {"Ever", "Year"}
           /\ \A s \in DOMAIN store :
                 /\ Cardinality(EntriesOf(results, s, "Ever")) =
                        (IF store[s].date >= d THEN 1 ELSE 0)
                 /\ \A i \in EntriesOf(results, s, "Ever") :
                        results[i].date = store[s].date /\ results[i].volume = store[s].volume
                 /\ Cardinality(EntriesOf(results, s, "Year")) =
                        (IF /\ IsSet(store[s].highest_volume_year_date)
                            /\ Get(store[s].highest_volume_year_date) >= d
                         THEN 1 ELSE 0)
                 /\ \A i \in EntriesOf(results, s, "Year") :
                        /\ Some(results[i].date) = store[s].highest_volume_year_date
                        /\ Some(results[i].volume) = store[s].highest_volume_year
           /\ \A i, j \in 1..Len(results) :
                 i < j => \/ results[i].date > results[j].date
                          \/ /\ results[i].date = results[j].date
                             /\ results[i].volume >= results[j].volume

\* A result with entries of both kinds, two of them of the same date with
\* different volumes, and a record left out by the date
C20_Witness ==
    /\ reader.pc = "done"
    /\ reader.op = "events"
    /\ \E i, j \in 1..Len(reader.results) :
          /\ reader.results[i].date = reader.results[j].date
          /\ reader.results[i].volume > reader.results[j].volume
          /\ reader.results[i].kind = "Year"
          /\ reader.results[j].kind = "Ever"
    /\ \E s \in DOMAIN store : store[s].date < reader.since_date

(***************************************************************************)
(* Properties of the last-market-day report                                *)
(***************************************************************************)
\* The entries of the store whose date equals day, by date then volume descending
EventsOn(table, day) ==
    SelectSeq(get_events_since_date(table, day), LAMBDA e : e.date = day)

\* C21: the last-market-day report is sent, with exactly the Ever and Year
\* entries of the store whose date is the last complete trading day, ordered
\* by date descending then volume descending.
C21_ReportOfLastMarketDay ==
    [][(app.pc = "report" /\ app'.pc = "reported") =>
          (app'.sent /\ app'.events = EventsOn(store, app.day))]_vars

C23_EmptyUniverseIsFatal ==
    (setup.mode = "bootstrap" /\ setup.symbols = <<>>) =>
        /\ setup.pc = "raised"
        /\ store = <<>>
        /\ meta.last_update_date = setup.meta0
        /\ meta.writes = 0
        /\ app.pc \in {"setup", "exited"}
        /\ app.pc = "exited" => app.exit_code = 1

\* main has ended after a bootstrap that found no symbol
C23_Witness ==
    /\ setup.mode = "bootstrap"
    /\ setup.symbols = <<>>
    /\ app.pc = "exited"

(***************************************************************************)
(* Properties of a rate-limited request                                    *)
(***************************************************************************)
\* C24: an HTTP attempt of _make_request answered 429 is not returned to the
\* caller; it is followed by a wait and another attempt, and the call raises
\* on it only when its last attempt is consumed.
C24_RateLimitedIsRetriedAfterWait ==
    [][(ViaMakeRequest /\ req'.http = req.http + 1 /\ req'.last = "429") =>
          /\ req'.pc \in {"sending", "raised"}
          /\ req'.pc = "sending" => req'.backoff > 0
          /\ req'.pc = "raised" => req.attempt = max_retries]_vars

(***************************************************************************)
(* Properties of the year record of one call                               *)
(***************************************************************************)
YearDateUnset(result) ==
    ~IsSet(result) \/ ~IsSet(Get(result).highest_volume_year_date)

\* C25: a call with historical_data on a symbol without a record, or whose
\* year date is unset, treats the year record as aged out: the year volume it
\* stores is the maximum of volume and the in-window bar volumes.
C25_UnsetYearIsAgedOut ==
    \A s \in Symbols, d \in Dates, v \in Volumes, h \in Histories :
        LET result == SelectRow(store, s)
            r == InsertOrUpdate(result, d, v, h)
        IN (YearDateUnset(result) /\ Len(h) > 0)
           => /\ r.aged
              /\ r.year_updated
              /\ YearVolumeOf(r.row) = Max2(v, WindowMax(h, d))

\* The dates of the in-window bars that carry the maximum in-window volume
WindowMaxDates(historical_data, volume_date) ==
    {MarketDate(historical_data[i].t) : i \in {j \in 1..Len(historical_data) :
        /\ MarketDate(historical_data[j].t) >= volume_date - YearDays
        /\ MarketDate(historical_data[j].t) <= volume_date
        /\ historical_data[j].v = WindowMax(historical_data, volume_date)}}

MinOf(S) == CHOOSE m \in S : \A x \in S : m <= x

C27_DegradesToObservation ==
    \A s \in DOMAIN store, d \in Dates, v \in Volumes :
        LET row == store[s]
            r == InsertOrUpdate(Some(row), d, v, <<>>)
            after == Applied(store, s, d, v, <<>>)[s]
        IN (/\ IsSet(row.highest_volume_year_date)
            /\ Get(row.highest_volume_year_date) < d - YearDays)
           => /\ r.year_updated
              /\ after.highest_volume_year = Some(v)
              /\ after.highest_volume_year_date = Some(d)

\* A call without history has just replaced an aged year record by its own,
\* lower, observation.
C27_Witness ==
    /\ last = "apply_degraded"
    /\ \E s \in DOMAIN store :
        /\ store[s].highest_volume_year_date = Some(track[s].latest)
        /\ YearVolumeOf(store[s]) < store[s].volume
        /\ track[s].only_applied

\* C28: a call writes exactly when it updates a record or the symbol has no
\* row: with a row and neither flag the table is unchanged, without
\* everUpdated the ever fields of a row are unchanged, and a first call seeds
\* the ever fields with the observation.
C28_WritesOnlyChanges ==
    \A s \in Symbols, d \in Dates, v \in Volumes, h \in Histories :
        LET result == SelectRow(store, s)
            r == InsertOrUpdate(result, d, v, h)
            after == Applied(store, s, d, v, h)
        IN /\ (IsSet(result) /\ ~r.ever_updated /\ ~r.year_updated) => after = store
           /\ (r.ever_updated \/ r.year_updated \/ ~IsSet(result)) =>
                  SelectRow(after, s) = Some(r.row)
           /\ (IsSet(result) /\ ~r.ever_updated) =>
                  /\ after[s].date = Get(result).date
                  /\ after[s].volume = Get(result).volume
           /\ ~IsSet(result) =>
                  /\ s \in DOMAIN after
                  /\ after[s].date = d
                  /\ after[s].volume = v

\* A first call that updated neither record has seeded the row of the symbol.
C28_Witness ==
    /\ last = "apply"
    /\ \E s \in DOMAIN store :
        /\ track[s].only_applied
        /\ store[s].volume = 0
        /\ store[s].date = track[s].latest

(***************************************************************************)
(* Properties of the records a bootstrap leaves                            *)
(***************************************************************************)
\* The history the pass fetched for the i-th symbol
FetchedHistory(i) == ChunksData(setup.symbols[i], task[i].outcomes, 1)

MaxOf(S) == CHOOSE m \in S : \A x \in S : x <= m

HistoryMax(h) == MaxOf({h[j].v : j \in 1..Len(h)} \cup {0})

\* The exchange-local date of the earliest bar that carries the maximum volume
EarliestMaxDate(h) ==
    MinOf({MarketDate(h[j].t) : j \in {k \in 1..Len(h) : h[k].v = HistoryMax(h)}})

\* C29: after a bootstrap pass every symbol whose fetched history holds a bar
\* of positive volume, and whose own store update did not fail, has been
\* applied and has the ever record (exchange-local date of the earliest bar
\* with the maximum volume, that volume); a symbol without such a bar has no
\* record.
C29_BootstrapRecordsEveryHistory ==
    (setup.mode = "bootstrap" /\ setup.pc = "done") =>
        \A i \in 1..Len(setup.symbols) :
            LET symbol == setup.symbols[i]
                h == FetchedHistory(i)
            IN IF HistoryMax(h) > 0
               THEN symbol \notin setup.failed =>
                        /\ symbol \in setup.applied
                        /\ symbol \in DOMAIN store
                        /\ store[symbol].volume = HistoryMax(h)
                        /\ store[symbol].date = EarliestMaxDate(h)
               ELSE symbol \notin DOMAIN store

(***************************************************************************)
(* Properties of the chunked history fetch                                 *)
(***************************************************************************)
\* C30: when get_historical_data_chunks returns, the ranges it requested, in
\* the order requested, partition start_date..end_date: the first begins at
\* start_date, each next one begins on the day after the one before ended,
\* none is empty, and the last ends at end_date.
C30_ChunksPartitionTheRange ==
    chunk.pc = "returned" =>
        LET n == Len(chunk.requests)
        IN /\ n >= 1
           /\ chunk.requests[1][1] = chunk.start_date
           /\ chunk.requests[n][2] = chunk.end_date
           /\ \A i \in 1..n : chunk.requests[i][1] <= chunk.requests[i][2]
           /\ \A i \in 1..(n - 1) : chunk.requests[i + 1][1] = chunk.requests[i][2] + 1

(***************************************************************************)
(* Properties of the order of a catch-up                                   *)
(***************************************************************************)
\* C31: the observations a catch-up pass applies for one symbol have
\* non-decreasing dates, in the order in which they are applied.
C31_CatchUpIsChronological ==
    setup.mode = "backfill" =>
        \A i, j \in 1..Len(setup.dates) : i < j => setup.dates[i] <= setup.dates[j]

\* A catch-up has applied bars of several days to a symbol
C31_Witness ==
    /\ setup.mode = "backfill"
    /\ Len(setup.dates) >= 2
    /\ setup.dates[1] < setup.dates[Len(setup.dates)]
    /\ setup.applied # {}

(***************************************************************************)
(* Properties of the universe filter                                       *)
(***************************************************************************)
\* The sum of a field over the latest n bars
RECURSIVE LatestSum(_, _, _)
LatestSum(h, field, n) ==
    IF n = 0 THEN 0 ELSE h[Len(h) - n + 1][field] + LatestSum(h, field, n - 1)

\* C32: passes_data_universe_filters returns true exactly when there are at
\* least 10 bars, the close of the latest bar is at least 3.00, none of the
\* latest 10 bars has a zero volume or close, the average volume times the
\* average close of the latest 10 bars exceeds 10,000,000, and no error
\* occurred.
C32_FilterIsTheStatedTest ==
    filt.pc = "returned" =>
        LET h == filt.historical_data
        IN filt.result <=>
            /\ filt.exc = "none"
            /\ Len(h) >= 10
            /\ h[Len(h)].c >= 300
            /\ \A i \in (Len(h) - 9)..Len(h) : h[i].v # 0 /\ h[i].c # 0
            /\ LatestSum(h, "v", 10) * LatestSum(h, "c", 10) > 100000000

\* The filter has accepted a history of more than ten bars whose bar outside
\* the latest ten is unusable
C32_Witness ==
    /\ filt.pc = "returned"
    /\ filt.result
    /\ Len(filt.historical_data) > SmaSessions
    /\ filt.historical_data[1].v = 0

(***************************************************************************)
(* Properties of what a call leaves alone                                  *)
(***************************************************************************)
\* C33: insert_or_update_highest_volume on a symbol leaves the row of every
\* other symbol and the last update date as they were, and the queries
\* get_highest_volume, get_highest_volume_year, get_all_symbols and
\* get_events_since_date change nothing that is stored.
C33_CallsTouchOnlyTheirSymbol ==
    [][IF reader'.pc = "done"
       THEN store' = store /\ meta' = meta
       ELSE /\ \A o \in QuerySymbols \ {last'} : SelectRow(store', o) = SelectRow(store, o)
            /\ meta' = meta]_vars

\* Both symbols have a record, the two differ, the last update date is set,
\* and a query has run after the latest call
C33_Witness ==
    /\ DOMAIN store = QuerySymbols
    /\ store["AAA"] # store["BBB"]
    /\ last = "BBB"
    /\ IsSet(meta.last_update_date)
    /\ reader.pc = "done"
    /\ reader.op = "get_year"
    /\ IsSet(reader.results)

(***************************************************************************)
(* Properties of the symbols of a live poll                                *)
(***************************************************************************)
\* C34: a live-poll tick adds no symbol to the store: the set of symbols that
\* have a record never changes, and a record changes only for a symbol that
\* had a record when the tick began and that the tick's snapshot lists.
C34_TickAddsNoSymbol ==
    /\ [][DOMAIN store' = DOMAIN store]_vars
    /\ [][\A s \in {"AAA", "BBB"} :
            SelectRow(store', s) # SelectRow(store, s) =>
                (s \in DOMAIN live.tick_store /\ s \in DOMAIN live.volumes)]_vars

\* A tick whose snapshot lists one of the two known symbols has changed that
\* symbol's record
C34_Witness ==
    /\ live.pc = "check"
    /\ DOMAIN live.tick_store = {"AAA", "BBB"}
    /\ DOMAIN live.volumes = {"AAA"}
    /\ store # live.tick_store
    /\ DOMAIN store = {"AAA", "BBB"}

(***************************************************************************)
(* Properties of the row a call leaves                                     *)
(***************************************************************************)
\* C35: right after a call whose write did not fail, the symbol has a row
\* whose ever volume is >= volume and, when volume > 0, whose year volume is
\* >= volume.
C35_RowCoversTheObservation ==
    \A s \in Symbols, d \in Dates, v \in Volumes, h \in Histories :
        LET after == Applied(store, s, d, v, h)
        IN /\ s \in DOMAIN after
           /\ after[s].volume >= v
           /\ v > 0 => YearVolumeOf(after[s]) >= v

\* A call has just raised the year record of a row to its volume, below the
\* ever volume that an earlier call had stored
C35_Witness ==
    /\ last = "apply"
    /\ \E s \in DOMAIN store :
        /\ track[s].only_applied
        /\ store[s].date < track[s].latest
        /\ store[s].highest_volume_year_date = Some(track[s].latest)
        /\ YearVolumeOf(store[s]) > 0
        /\ YearVolumeOf(store[s]) < store[s].volume

\* C36: on a symbol that has a row, everUpdated is returned exactly when the
\* stored (ever date, ever volume) differs after the call, and yearUpdated
\* exactly when the stored (year date, year volume) differs after the call.
C36_FlagsReportTheChange ==
    \A s \in DOMAIN store, d \in Dates, v \in Volumes, h \in Histories :
        LET row == store[s]
            r == InsertOrUpdate(Some(row), d, v, h)
            after == Applied(store, s, d, v, h)[s]
        IN /\ r.ever_updated <=> (<<after.date, after.volume>> # <<row.date, row.volume>>)
           /\ r.year_updated <=>
                (<<after.highest_volume_year_date, after.highest_volume_year>>
                    # <<row.highest_volume_year_date, row.highest_volume_year>>)

\* A row whose year fields were unset has received its first year record from
\* a call that left the ever record alone
C36_Witness ==
    /\ last = "apply"
    /\ \E s \in DOMAIN store :
        /\ ~track[s].only_applied
        /\ IsSet(store[s].highest_volume_year_date)
        /\ store[s].date # Get(store[s].highest_volume_year_date)
        /\ store[s].volume > YearVolumeOf(store[s])

(***************************************************************************)
(* The rows a batch insert leaves                                          *)
(***************************************************************************)
\* The positions of records that list the symbol
ListedAt(records, symbol) == {i \in 1..Len(records) : records[i].symbol = symbol}

\* C37: after batch_insert_highest_volumes(records) every listed symbol has a
\* row whose ever date and ever volume are the supplied ones (those of the
\* last record that lists the symbol), whatever ever volume was stored
\* before, and whose year date and year volume are unset; the rows of the
\* symbols that are not listed are unchanged.
C37_BatchReplacesListedRows ==
    [][last'.call = "batch_insert_highest_volumes" =>
        \A s \in QuerySymbols :
            IF ListedAt(last'.records, s) = {}
            THEN SelectRow(store', s) = SelectRow(store, s)
            ELSE LET record == last'.records[MaxOf(ListedAt(last'.records, s))]
                 IN /\ s \in DOMAIN store'
                    /\ store'[s].date = record.volume_date
                    /\ store'[s].volume = record.volume
                    /\ store'[s].highest_volume_year = None
                    /\ store'[s].highest_volume_year_date = None]_vars

\* A batch insert of one symbol has lowered its ever volume and unset its
\* year fields, next to a row of the other symbol that has year fields
C37_Witness ==
    /\ last.call = "batch_insert_highest_volumes"
    /\ Len(last.records) = 1
    /\ last.records[1].symbol = "AAA"
    /\ last.records[1].volume = 1
    /\ DOMAIN store = QuerySymbols
    /\ store["AAA"].volume = 1
    /\ store["AAA"].highest_volume_year_date = None
    /\ store["BBB"].volume = MaxVolume
    /\ IsSet(store["BBB"].highest_volume_year_date)

====
